---- MODULE Spec2Model ----
(***************************************************************************)
(* Verification model of the SSD Dispatch Tracker: the SQLite-backed       *)
(* store (database.py), its bulk import loops, and the badge photo cache   *)
(* (photo_manager.py).                                                     *)
(*                                                                         *)
(* Python dicts (batch records, keyword arguments) are functions whose     *)
(* DOMAIN is the set of keys present.  Python None / SQL NULL is the       *)
(* value NULL.  A table is the sequence of its rows in rowid order.        *)
(***************************************************************************)
EXTENDS Integers, Sequences, FiniteSets, TLC

VARIABLES
    employees,       \* employees table: sequence of rows
    certifications,  \* certifications table: sequence of rows
    cert_seq,        \* AUTOINCREMENT counter of certifications (sqlite_sequence)
    last,            \* the last store call of the free-running store: op, id, ret
    kind,            \* import harness: which bulk import is exercised
    batch,           \* import harness: the batch handed to the bulk import
    runs,            \* import harness: outcomes of the runs made so far
    photo_cache,     \* PhotoManager.photo_cache: entries in insertion order
    cache_size,      \* PhotoManager.cache_size
    pil_available,   \* PIL_AVAILABLE of photo_manager.py
    inserted,        \* keys handed to _add_to_cache since the cache was empty
    today,           \* what date('now') yields: the engine's current (UTC) date
    assignments,     \* assignments table: sequence of rows
    assign_seq,      \* AUTOINCREMENT counter of assignments (sqlite_sequence)
    metadata,        \* metadata table: the value stored under each key
    log_file,        \* import_log.json in the CSV import directory
    import_log,      \* CSVImporter.import_log, the log kept in memory
    pc,              \* shared file: where each process's current call stands
    req,             \* shared file: the row each process's current call writes
    in_tx,           \* shared file: connection.in_transaction of each process
    waited,          \* shared file: busy-handler retries of the current call
    writer,          \* shared file: the process holding the write lock, or 0
    issued,          \* shared file: calls made so far
    wal,             \* shared file: committed rows still only in the -wal file
    main_file,       \* shared file: rows checkpointed into the primary file
    backup           \* shared file: the latest backup copy

storeVars == <<employees, certifications, cert_seq, kind, batch, runs>>
cacheVars == <<photo_cache, cache_size, pil_available, inserted>>
assignVars == <<assignments, assign_seq>>
sharedVars == <<pc, req, in_tx, waited, writer, issued, wal, main_file, backup>>
logVars == <<log_file, import_log>>
restVars == <<today, assignVars, sharedVars, metadata, logVars>>
vars == <<storeVars, last, cacheVars, restVars>>

(***************************************************************************)
(* Bounds and value universes                                              *)
(***************************************************************************)
MaxBatch == 2     \* longest batch handed to a bulk import
MaxRuns == 2      \* how often the import harness re-runs one batch
MaxCacheSize == 2 \* largest configured PHOTO_CACHE_SIZE
MaxPreload == 2   \* longest list handed to preload_photos

NULL == "<null>"

Ids == {"E1", "E2"}
Names == {"Ann", "Bob"}

\* dict.get(key): the value, or None when the key is absent
Get(d, k) == IF k \in DOMAIN d THEN d[k] ELSE NULL

(***************************************************************************)
(* Dates.  A datetime.date is <<year, month, day>>.  A DATE column holds   *)
(* the text the connection binds for it, a sequence of code points, and    *)
(* the engine compares such text byte by byte.                             *)
(***************************************************************************)
\* Consecutive calendar days the model's clock runs through
Days == << <<2026, 9, 30>>, <<2026, 10, 1>>, <<2026, 10, 2>> >>
DaySet == {Days[i] : i \in DOMAIN Days}

\* NULL in a DATE column
NoDate == <<>>

\* The code point of a decimal digit, and of '-'
Digit(n) == 48 + n
Hyphen == 45

\* date.isoformat(), which the connection binds for a date: YYYY-MM-DD
isoformat(d) ==
    << Digit(d[1] \div 1000), Digit((d[1] \div 100) % 10),
       Digit((d[1] \div 10) % 10), Digit(d[1] % 10), Hyphen,
       Digit(d[2] \div 10), Digit(d[2] % 10), Hyphen,
       Digit(d[3] \div 10), Digit(d[3] % 10) >>

\* a < b on TEXT under the BINARY collation: memcmp, then the shorter first
TextLess(a, b) ==
    \E k \in 1..Len(b) :
        /\ \A i \in 1..(k - 1) : i <= Len(a) /\ a[i] = b[i]
        /\ (k > Len(a) \/ a[k] < b[k])

(***************************************************************************)
(* Schema of the employees table (database.py 46-60).  The model carries   *)
(* the key, the NOT NULL column and the two CHECK-constrained columns; the *)
(* remaining optional columns are unconstrained TEXT handled by the same   *)
(* loop of add_employee.                                                   *)
(***************************************************************************)
SHIFTS == {"DAY", "NIGHT", "TWILIGHT"}
EMPLOYEE_STATUSES == {"active", "inactive", "leave"}
EmployeeColumns == {"employee_id", "name", "shift", "status"}

\* The rows the PRIMARY KEY index finds for an identity
RowsWithId_wrongcol(tbl, id) == {i \in DOMAIN tbl : tbl[i].name = id}
RowsWithId(tbl, id) == {i \in DOMAIN tbl : tbl[i].employee_id = id}

\* NOT NULL and CHECK constraints of one row (a CHECK passes on NULL)
EmployeeRowOK(row) ==
    /\ row.name # NULL
    /\ (row.shift = NULL \/ row.shift \in SHIFTS)
    /\ (row.status = NULL \/ row.status \in EMPLOYEE_STATUSES)

\* What get_employee returns when no row matches (None)
NoRow == <<>>

\* get_employee: the row found, or None
get_employee(tbl, id) ==
    IF RowsWithId(tbl, id) = {} THEN NoRow
    ELSE tbl[CHOOSE i \in RowsWithId(tbl, id) : TRUE]

\* Python binds add_employee(**emp): both positional parameters are needed
BindAddEmployee(emp) == {"employee_id", "name"} \subseteq DOMAIN emp

\* The row INSERT builds: named columns from the call, defaults elsewhere
NewEmployeeRow(emp) ==
    [employee_id |-> emp.employee_id,
     name        |-> emp.name,
     shift       |-> Get(emp, "shift"),
     status      |-> IF "status" \in DOMAIN emp THEN emp.status ELSE "active"]

\* add_employee(employee_id, name, **kwargs) on a bound call
add_employee_replace(tbl, emp) ==
    LET row == NewEmployeeRow(emp)
    IN  IF EmployeeRowOK(row)
        THEN [tbl |-> SelectSeq(tbl, LAMBDA r : r.employee_id # row.employee_id)
                         \o <<row>>,
              ok |-> TRUE, ret |-> TRUE]
        ELSE [tbl |-> tbl, ok |-> FALSE, ret |-> FALSE]
add_employee(tbl, emp) ==
    LET row == NewEmployeeRow(emp)
    IN  IF RowsWithId(tbl, row.employee_id) = {} /\ EmployeeRowOK(row)
        THEN [tbl |-> Append(tbl, row), ok |-> TRUE, ret |-> TRUE]
        ELSE [tbl |-> tbl, ok |-> FALSE, ret |-> FALSE]

\* Python binds update_employee(id, **kwargs): employee_id may not come twice
BindUpdateEmployee(kwargs) == "employee_id" \notin DOMAIN kwargs

\* The column a name in the SET clause resolves to: the engine matches
\* column names without regard to case, Python keyword names with regard
\* to it.  EMPLOYEE_ID is the one such spelling among the model's inputs.
ColumnOf(key) == IF key = "EMPLOYEE_ID" THEN "employee_id" ELSE key

\* One row after UPDATE ... SET key=? for every key of kwargs
UpdatedRow_replace(row, kwargs) ==
    [c \in EmployeeColumns |->
        IF \E k \in DOMAIN kwargs : ColumnOf(k) = c
        THEN kwargs[CHOOSE k \in DOMAIN kwargs : ColumnOf(k) = c]
        ELSE IF c = "employee_id" THEN row[c] ELSE NULL]
UpdatedRow(row, kwargs) ==
    [c \in EmployeeColumns |->
        IF \E k \in DOMAIN kwargs : ColumnOf(k) = c
        THEN kwargs[CHOOSE k \in DOMAIN kwargs : ColumnOf(k) = c]
        ELSE row[c]]

\* update_employee(employee_id, **kwargs) on a bound call
update_employee(tbl, id, kwargs) ==
    IF DOMAIN kwargs = {} \/ \E k \in DOMAIN kwargs : ColumnOf(k) \notin EmployeeColumns
    THEN [tbl |-> tbl, ok |-> FALSE, ret |-> FALSE]   \* does not prepare
    ELSE IF \E i \in RowsWithId(tbl, id) :
               \/ ~EmployeeRowOK(UpdatedRow(tbl[i], kwargs))
               \/ \E j \in DOMAIN tbl \ {i} :
                     tbl[j].employee_id = UpdatedRow(tbl[i], kwargs).employee_id
    THEN [tbl |-> tbl, ok |-> FALSE, ret |-> FALSE]   \* constraint violation
    ELSE [tbl |-> [i \in DOMAIN tbl |->
                     IF i \in RowsWithId(tbl, id)
                     THEN UpdatedRow(tbl[i], kwargs) ELSE tbl[i]],
          ok |-> TRUE, ret |-> TRUE]

\* The columns a call names in its keyword arguments
ColumnsNamed(kwargs) == {ColumnOf(k) : k \in DOMAIN kwargs}

\* The columns the records of a batch name for an identity
NamedInBatch(records, id) ==
    UNION {DOMAIN records[n] : n \in {m \in DOMAIN records :
                                        Get(records[m], "employee_id") = id}}

(***************************************************************************)
(* bulk_import_employees (database.py 391-413).  The accumulator carries   *)
(* the table, the two counters the code returns, and two observations of   *)
(* the run: how many inner store calls reported success (applied) and the  *)
(* table after each record (trace).                                        *)
(***************************************************************************)
\* success += 1 after the inner call returned, whatever it returned; r.ok
\* tells whether that call wrote its row
Counted(acc, r) ==
    [acc EXCEPT !.tbl     = r.tbl,
                !.success = acc.success + 1,
                !.applied = acc.applied + (IF r.ok THEN 1 ELSE 0),
                !.trace   = Append(acc.trace, r.tbl)]

\* except Exception: errors += 1
Raised_silent(acc) ==
    [acc EXCEPT !.trace  = Append(acc.trace, acc.tbl)]
Raised(acc) ==
    [acc EXCEPT !.errors = acc.errors + 1,
                !.trace  = Append(acc.trace, acc.tbl)]

\* One iteration of the loop of bulk_import_employees
ImportEmployee(acc, emp) ==
    LET id == Get(emp, "employee_id")
    IN  IF get_employee(acc.tbl, id) # NoRow
        THEN IF BindUpdateEmployee(emp)
             THEN Counted(acc, update_employee(acc.tbl, id, emp))
             ELSE Raised(acc)   \* TypeError: multiple values for employee_id
        ELSE IF BindAddEmployee(emp)
             THEN Counted(acc, add_employee(acc.tbl, emp))
             ELSE Raised(acc)   \* TypeError: missing positional argument

RECURSIVE ImportEmployeesFrom_abort(_, _, _)
ImportEmployeesFrom_abort(acc, records, i) ==
    IF i > Len(records) THEN acc
    ELSE LET nxt == ImportEmployee(acc, records[i])
         IN  IF nxt.errors > acc.errors THEN nxt
             ELSE ImportEmployeesFrom_abort(nxt, records, i + 1)

\* for emp in employees: ... from the i-th record on
RECURSIVE ImportEmployeesFrom(_, _, _)
ImportEmployeesFrom(acc, records, i) ==
    IF i > Len(records) THEN acc
    ELSE ImportEmployeesFrom(ImportEmployee(acc, records[i]), records, i + 1)

bulk_import_employees(tbl, records) ==
    ImportEmployeesFrom([tbl |-> tbl, success |-> 0, errors |-> 0,
                         applied |-> 0, trace |-> <<tbl>>], records, 1)

(***************************************************************************)
(* Inputs of the worker operations                                         *)
(***************************************************************************)
EmployeeRecords ==
    {[employee_id |-> i, name |-> n] : i \in Ids, n \in Names}
    \cup {[employee_id |-> i, name |-> "Ann", shift |-> "DAY"] : i \in Ids}
    \cup {[employee_id |-> i, name |-> "Bob", shift |-> "SWING"] : i \in Ids}
    \cup {[employee_id |-> i, name |-> "Bob", status |-> "leave"] : i \in Ids}
    \cup {[employee_id |-> i, name |-> "Ann", login |-> "ann1"] : i \in Ids}
    \cup {[employee_id |-> i, shift |-> "DAY"] : i \in Ids}
    \cup {[employee_id |-> "E1", name |-> NULL], [name |-> "Ann"]}

UpdateKwargs ==
    {[name |-> n] : n \in Names \cup {NULL}}
    \cup {[shift |-> "DAY"], [status |-> "leave"], [login |-> "ann1"], <<>>,
          [name |-> "Bob", shift |-> "SWING"], [name |-> "Ann", shift |-> "DAY"],
          [EMPLOYEE_ID |-> "E2"]}

BatchesOf(S) == UNION {[1..n -> S] : n \in 0..MaxBatch}

\* The batches the free-running store imports
BulkRecords ==
    {[employee_id |-> "E1", name |-> "Ann"],
     [employee_id |-> "E2", name |-> "Bob"],
     [employee_id |-> "E1", name |-> "Bob", status |-> "leave"],
     [employee_id |-> "E2", name |-> "Ann", shift |-> "DAY"],
     [employee_id |-> "E1", name |-> "Bob", shift |-> "SWING"],
     [employee_id |-> "E2", shift |-> "DAY"],
     [name |-> "Ann"]}

(***************************************************************************)
(* Certifications (database.py 79-92, 335-353, 415-428)                    *)
(***************************************************************************)
TRAINING_LEVELS == {"LC1", "LC2", "LC3", "AMBASSADOR", "TRAINER"}
CertRequiredKeys == {"employee_id", "process_path", "level", "certified_date"}
CertOptionalKeys == {"trainer_id", "expiration_date"}

\* Python binds add_certification(**cert): no **kwargs, four required names
BindAddCertification(cert) ==
    /\ CertRequiredKeys \subseteq DOMAIN cert
    /\ DOMAIN cert \subseteq CertRequiredKeys \cup CertOptionalKeys

\* The row INSERT builds; cert_id comes from the AUTOINCREMENT counter
NewCertificationRow(seq, cert) ==
    [cert_id         |-> seq + 1,
     employee_id     |-> cert.employee_id,
     process_path    |-> cert.process_path,
     level           |-> cert.level,
     certified_date  |-> isoformat(cert.certified_date),
     trainer_id      |-> Get(cert, "trainer_id"),
     expiration_date |-> IF "expiration_date" \in DOMAIN cert
                         THEN isoformat(cert.expiration_date) ELSE NoDate,
     status          |-> "active"]

\* NOT NULL and CHECK constraints of one certifications row
CertificationRowOK(row) ==
    /\ row.employee_id # NULL
    /\ (row.level = NULL \/ row.level \in TRAINING_LEVELS)

\* add_certification on a bound call; ret is lastrowid, or None
add_certification_dedup(tbl, seq, cert) ==
    LET row == NewCertificationRow(seq, cert)
    IN  IF CertificationRowOK(row)
        THEN IF \E i \in DOMAIN tbl : /\ tbl[i].employee_id = row.employee_id
                                       /\ tbl[i].process_path = row.process_path
             THEN [tbl |-> tbl, seq |-> seq, ok |-> TRUE, ret |-> seq]
             ELSE [tbl |-> Append(tbl, row), seq |-> seq + 1, ok |-> TRUE,
              ret |-> seq + 1]
        ELSE [tbl |-> tbl, seq |-> seq, ok |-> FALSE, ret |-> NULL]
add_certification(tbl, seq, cert) ==
    LET row == NewCertificationRow(seq, cert)
    IN  IF CertificationRowOK(row)
        THEN [tbl |-> Append(tbl, row), seq |-> seq + 1, ok |-> TRUE,
              ret |-> seq + 1]
        ELSE [tbl |-> tbl, seq |-> seq, ok |-> FALSE, ret |-> NULL]

\* One iteration of the loop of bulk_import_certifications
ImportCertification(acc, cert) ==
    IF BindAddCertification(cert)
    THEN LET r == add_certification(acc.tbl, acc.seq, cert)
         IN  [Counted(acc, r) EXCEPT !.seq = r.seq]
    ELSE Raised(acc)            \* TypeError: missing or unexpected argument

\* for cert in certifications: ... from the i-th record on
RECURSIVE ImportCertificationsFrom(_, _, _)
ImportCertificationsFrom(acc, records, i) ==
    IF i > Len(records) THEN acc
    ELSE ImportCertificationsFrom(ImportCertification(acc, records[i]),
                                  records, i + 1)

bulk_import_certifications(tbl, seq, records) ==
    ImportCertificationsFrom([tbl |-> tbl, seq |-> seq, success |-> 0,
                              errors |-> 0, applied |-> 0, trace |-> <<tbl>>],
                             records, 1)

CertBase(e, p) ==
    [employee_id |-> e, process_path |-> p, level |-> "LC1",
     certified_date |-> <<2026, 1, 5>>]

CertRecords ==
    {CertBase("E1", "PICK"), CertBase("E1", "STOW"), CertBase("E2", "PICK"),
     [CertBase("E1", "PICK") EXCEPT !.level = "LC9"],
     [CertBase("E1", "PICK") EXCEPT !.employee_id = NULL],
     [employee_id |-> "E1", process_path |-> "PICK",
      certified_date |-> <<2026, 1, 5>>],
     [employee_id |-> "E2", process_path |-> "STOW", level |-> "LC2",
      certified_date |-> <<2026, 1, 5>>, expiration_date |-> <<2027, 1, 5>>],
     [employee_id |-> "E1", process_path |-> "STOW", level |-> "LC1",
      certified_date |-> <<2026, 1, 5>>, notes |-> "imported"]}

\* The photo cache of a process that only exercises the store
CacheIdle ==
    /\ photo_cache = <<>>
    /\ cache_size = MaxCacheSize
    /\ pil_available = TRUE
    /\ inserted = <<>>

\* No import was logged: no log file, an empty log in memory
NoLogFile == [exists |-> FALSE, valid |-> TRUE, entries |-> <<>>]
LogIdle == log_file = NoLogFile /\ import_log = <<>>

\* The rest of the system while one part of it is exercised
\* No process has the shared file in use
SharedIdle ==
    /\ pc = <<>>
    /\ req = <<>>
    /\ in_tx = <<>>
    /\ waited = <<>>
    /\ writer = 0
    /\ issued = 0
    /\ wal = <<>>
    /\ main_file = {}
    /\ backup = <<>>

RestIdle ==
    /\ today = Days[1]
    /\ assignments = <<>>
    /\ assign_seq = 0
    /\ metadata = <<>>
    /\ LogIdle
    /\ SharedIdle

(***************************************************************************)
(* The free-running worker store: any sequence of add_employee,            *)
(* update_employee and bulk_import_employees calls on one connection.      *)
(***************************************************************************)
Init ==
    /\ employees = <<>>
    /\ certifications = <<>>
    /\ cert_seq = 0
    /\ last = [op |-> "open", id |-> NULL, ret |-> TRUE]
    /\ kind = "none"
    /\ batch = <<>>
    /\ runs = <<>>
    /\ CacheIdle
    /\ RestIdle

AddEmployee ==
    \E emp \in {e \in EmployeeRecords : BindAddEmployee(e)} :
        LET r == add_employee(employees, emp)
        IN  /\ employees' = r.tbl
            /\ last' = [op |-> "add_employee", id |-> emp.employee_id, ret |-> r.ret]
            /\ UNCHANGED <<certifications, cert_seq, kind, batch, runs, cacheVars, restVars>>

UpdateEmployee ==
    \E id \in Ids, kwargs \in UpdateKwargs :
        LET r == update_employee(employees, id, kwargs)
        IN  /\ employees' = r.tbl
            /\ last' = [op |-> "update_employee", id |-> id, ret |-> r.ret]
            /\ UNCHANGED <<certifications, cert_seq, kind, batch, runs, cacheVars, restVars>>

BulkImportEmployees ==
    \E records \in BatchesOf(BulkRecords) :
        LET r == bulk_import_employees(employees, records)
        IN  /\ employees' = r.tbl
            /\ last' = [op |-> "bulk_import_employees", id |-> NULL,
                        ret |-> <<r.success, r.errors>>]
            /\ UNCHANGED <<certifications, cert_seq, kind, batch, runs, cacheVars, restVars>>

Next == AddEmployee \/ UpdateEmployee \/ BulkImportEmployees

Spec == Init /\ [][Next]_vars

\* The identities stored in a table
StoredIds(tbl) == {tbl[i].employee_id : i \in DOMAIN tbl}

\* C1: worker identity is unique. The employees table never holds two rows
\* with one identity, and an add_employee naming an identity that is already
\* stored returns False and leaves the table as it was.
C1_IdentityUnique ==
    /\ [](\A i, j \in DOMAIN employees :
            employees[i].employee_id = employees[j].employee_id => i = j)
    /\ [][(last'.op = "add_employee" /\ last'.id \in StoredIds(employees))
            => (last'.ret = FALSE /\ employees' = employees)]_vars

\* C1 witness: an add_employee on a stored identity was refused while the
\* table holds two workers
C1_Witness ==
    /\ last.op = "add_employee"
    /\ last.ret = FALSE
    /\ last.id \in StoredIds(employees)
    /\ Len(employees) = 2

\* C19: worker identity is immutable. No store operation changes the
\* identity of a stored Worker row: every row keeps the identity it was
\* stored under.
C19_IdentityImmutable ==
    [][\A i \in DOMAIN employees :
          /\ i \in DOMAIN employees'
          /\ employees'[i].employee_id = employees[i].employee_id]_vars

(***************************************************************************)
(* The import harness: one bulk import call on a drawn store and a drawn   *)
(* batch, then the same call again on the store it left.  runs[k] is the   *)
(* outcome of the k-th call.                                               *)
(***************************************************************************)
WorkerRow0(i, n, sh) ==
    [employee_id |-> i, name |-> n, shift |-> sh, status |-> "active"]

\* Stores the worker operations can have built before the import
WorkerTables0 ==
    {<<>>}
    \cup {<<WorkerRow0(i, n, sh)>> : i \in Ids, n \in Names, sh \in {NULL, "DAY"}}
    \cup {<<WorkerRow0("E1", n1, sh), WorkerRow0("E2", n2, NULL)>> :
             n1 \in Names, n2 \in Names, sh \in {NULL, "DAY"}}

\* Certification tables add_certification can have built before the import
CertTables0 == {<<>>, <<NewCertificationRow(0, CertBase("E1", "PICK"))>>}

InitImport ==
    /\ last = [op |-> "open", id |-> NULL, ret |-> TRUE]
    /\ runs = <<>>
    /\ CacheIdle
    /\ RestIdle
    /\ \/ /\ kind = "employees"
          /\ employees \in WorkerTables0
          /\ batch \in BatchesOf(EmployeeRecords)
          /\ certifications = <<>>
          /\ cert_seq = 0
       \/ /\ kind = "certifications"
          /\ employees = <<>>
          /\ certifications \in CertTables0
          /\ cert_seq = Len(certifications)
          /\ batch \in BatchesOf(CertRecords)

RunImportEmployees ==
    /\ kind = "employees"
    /\ Len(runs) < MaxRuns
    /\ LET r == bulk_import_employees(employees, batch)
       IN  /\ employees' = r.tbl
           /\ runs' = Append(runs, r)
           /\ last' = [op |-> "bulk_import_employees", id |-> NULL,
                       ret |-> <<r.success, r.errors>>]
    /\ UNCHANGED <<certifications, cert_seq, kind, batch, cacheVars, restVars>>

RunImportCertifications ==
    /\ kind = "certifications"
    /\ Len(runs) < MaxRuns
    /\ LET r == bulk_import_certifications(certifications, cert_seq, batch)
       IN  /\ certifications' = r.tbl
           /\ cert_seq' = r.seq
           /\ runs' = Append(runs, r)
           /\ last' = [op |-> "bulk_import_certifications", id |-> NULL,
                       ret |-> <<r.success, r.errors>>]
    /\ UNCHANGED <<employees, kind, batch, cacheVars, restVars>>

NextImport == RunImportEmployees \/ RunImportCertifications

SpecImport == InitImport /\ [][NextImport]_vars

\* The table before and after the i-th record of the k-th run
Before(k, i) == runs[k].trace[i]
After(k, i) == runs[k].trace[i + 1]

\* The worker row a table holds for an identity (a set: empty when none)
WorkerRows(tbl, id) == {tbl[i] : i \in RowsWithId(tbl, id)}

\* The recognized columns a record names
NamedColumns(emp) == DOMAIN emp \cap EmployeeColumns

\* A record whose recognized fields all hold values of their column's domain
ValidWorkerValues(emp) ==
    /\ "employee_id" \in DOMAIN emp
    /\ "name" \in DOMAIN emp => emp.name # NULL
    /\ "shift" \in DOMAIN emp => emp.shift \in SHIFTS
    /\ "status" \in DOMAIN emp => emp.status \in EMPLOYEE_STATUSES

\* A row carries every recognized field of a record
Carries(row, emp) == \A c \in NamedColumns(emp) : row[c] = emp[c]

\* A worker record the store can insert: identity, name, valid values
WellFormedWorker(emp) == ValidWorkerValues(emp) /\ "name" \in DOMAIN emp

\* A certification record the store can insert
WellFormedCert(cert) ==
    /\ CertRequiredKeys \subseteq DOMAIN cert
    /\ DOMAIN cert \subseteq CertRequiredKeys \cup CertOptionalKeys
    /\ cert.employee_id # NULL
    /\ cert.level \in TRAINING_LEVELS

\* A certifications row carries every field of a record
CertCarries(row, cert) ==
    \A c \in DOMAIN cert \cap (CertRequiredKeys \cup CertOptionalKeys) :
        row[c] = IF c \in {"certified_date", "expiration_date"}
                 THEN isoformat(cert[c]) ELSE cert[c]

CertIds(tbl) == {tbl[i].cert_id : i \in DOMAIN tbl}

\* The keys of the rows of a table of the imported kind
Keys(tbl) == IF kind = "employees" THEN StoredIds(tbl) ELSE CertIds(tbl)

\* C2: upsert of an existing Worker. Every valid record of a batch whose
\* identity is stored when the record is processed leaves the stored row
\* carrying the record's fields, and every valid record with a name whose
\* identity is not stored leaves a new row carrying its fields.
C2_UpsertApplied ==
    kind = "employees" =>
      \A k \in DOMAIN runs, i \in DOMAIN batch :
        LET emp == batch[i]
            id  == Get(emp, "employee_id")
        IN  (ValidWorkerValues(emp) /\ DOMAIN emp \subseteq EmployeeColumns) =>
              IF WorkerRows(Before(k, i), id) # {}
              THEN \A row \in WorkerRows(After(k, i), id) : Carries(row, emp)
              ELSE "name" \in DOMAIN emp =>
                     \E row \in WorkerRows(After(k, i), id) : Carries(row, emp)

\* C3: last write in a batch wins. When two valid records of one batch name
\* the same identity, the stored Worker carries, after the call, every field
\* of the last record naming that identity.
C3_LastWriteWins ==
    kind = "employees" =>
      \A k \in DOMAIN runs, i \in DOMAIN batch, j \in DOMAIN batch :
        ( /\ i < j
          /\ ValidWorkerValues(batch[i]) /\ ValidWorkerValues(batch[j])
          /\ DOMAIN batch[i] \subseteq EmployeeColumns
          /\ DOMAIN batch[j] \subseteq EmployeeColumns
          /\ batch[i].employee_id = batch[j].employee_id
          /\ \A l \in DOMAIN batch :
                l > j => Get(batch[l], "employee_id") # batch[j].employee_id )
        => \A row \in WorkerRows(runs[k].tbl, batch[j].employee_id) :
              Carries(row, batch[j])

\* C4: merge idempotence. Running bulk_import_employees again on the same
\* batch leaves the employees table exactly as the run before left it: the
\* same rows with the same field values, and no new row.
C4_MergeIdempotent ==
    kind = "employees" =>
      \A k \in DOMAIN runs : k > 1 => runs[k].tbl = runs[k - 1].tbl

\* C4 witness: a batch of two records that the first run inserted both, run
\* a second time
C4_Witness ==
    /\ kind = "employees"
    /\ Len(runs) >= 2
    /\ Len(batch) = 2
    /\ Len(runs[1].tbl) = Len(Before(1, 1)) + 2

\* C5: per-record isolation. In both bulk imports every record of the batch
\* gets its iteration whatever happened to the records before it, the rows
\* present after a record are still present when the call returns, and a
\* well-formed record is written even when an earlier record failed.
C5_RecordIsolation ==
    \A k \in DOMAIN runs :
      /\ Len(runs[k].trace) = Len(batch) + 1
      /\ \A i \in DOMAIN batch :
            /\ Keys(After(k, i)) \subseteq Keys(runs[k].tbl)
            /\ ( /\ kind = "employees"
                 /\ WellFormedWorker(batch[i])
                 /\ WorkerRows(Before(k, i), batch[i].employee_id) = {} )
               => \E row \in WorkerRows(After(k, i), batch[i].employee_id) :
                     Carries(row, batch[i])
            /\ (kind = "certifications" /\ WellFormedCert(batch[i]))
               => /\ Len(After(k, i)) = Len(Before(k, i)) + 1
                  /\ CertCarries(After(k, i)[Len(After(k, i))], batch[i])

\* C5 witness: the first record of a batch failed and wrote nothing, the
\* second one was written
C5_Witness ==
    /\ Len(runs) >= 1
    /\ Len(batch) = 2
    /\ runs[1].errors >= 1
    /\ After(1, 1) = Before(1, 1)
    /\ Len(After(1, 2)) = Len(After(1, 1)) + 1

\* C6: truthful counts. The success count a bulk import returns is the
\* number of records whose insert or update the store applied, and the
\* failure count is the number of the other records.
C6_TruthfulCounts ==
    \A k \in DOMAIN runs :
      /\ runs[k].success = runs[k].applied
      /\ runs[k].errors = Len(batch) - runs[k].applied

\* The fields of a record the store knows
KnownPart(rec, keys) == [c \in DOMAIN rec \cap keys |-> rec[c]]

\* C7: unrecognized fields are ignored. A record that is well-formed once
\* its unknown fields are dropped is applied with its recognized fields: a
\* Worker record is inserted or merged, a Certification record is inserted.
C7_UnknownFieldsIgnored ==
    \A k \in DOMAIN runs, i \in DOMAIN batch :
      /\ ( /\ kind = "employees"
           /\ ~(DOMAIN batch[i] \subseteq EmployeeColumns)
           /\ WellFormedWorker(batch[i]) )
         => /\ WorkerRows(After(k, i), batch[i].employee_id) # {}
            /\ \A row \in WorkerRows(After(k, i), batch[i].employee_id) :
                  Carries(row, batch[i])
      /\ ( /\ kind = "certifications"
           /\ ~(DOMAIN batch[i] \subseteq CertRequiredKeys \cup CertOptionalKeys)
           /\ WellFormedCert(KnownPart(batch[i],
                                       CertRequiredKeys \cup CertOptionalKeys)) )
         => /\ Len(After(k, i)) = Len(Before(k, i)) + 1
            /\ CertCarries(After(k, i)[Len(After(k, i))], batch[i])

\* C8: certification import always inserts. Every well-formed record of a
\* batch appends one row with an id no row had before, whether or not the
\* worker already holds a certification for the process; a batch of n
\* well-formed records imported k times leaves k * n more rows.
C8_CertImportInserts ==
    kind = "certifications" =>
      \A k \in DOMAIN runs :
        /\ \A i \in DOMAIN batch :
              WellFormedCert(batch[i]) =>
                /\ Len(After(k, i)) = Len(Before(k, i)) + 1
                /\ SubSeq(After(k, i), 1, Len(Before(k, i))) = Before(k, i)
                /\ LET row == After(k, i)[Len(After(k, i))]
                   IN  /\ CertCarries(row, batch[i])
                       /\ row.cert_id \notin CertIds(Before(k, i))
        /\ (\A i \in DOMAIN batch : WellFormedCert(batch[i]))
           => Len(runs[k].tbl) = Len(Before(1, 1)) + k * Len(batch)

\* C8 witness: a batch holding the same well-formed record twice, for a
\* worker and process already certified, imported twice
C8_Witness ==
    /\ kind = "certifications"
    /\ Len(runs) >= 2
    /\ Len(batch) = 2
    /\ batch[1] = batch[2]
    /\ WellFormedCert(batch[1])
    /\ \E i \in DOMAIN Before(1, 1) :
          /\ Before(1, 1)[i].employee_id = batch[1].employee_id
          /\ Before(1, 1)[i].process_path = batch[1].process_path
    /\ Len(certifications) = Len(Before(1, 1)) + 4

(***************************************************************************)
(* The badge photo cache (photo_manager.py).  Identities and names are     *)
(* sequences of characters.  A pixmap is described by what was drawn.      *)
(***************************************************************************)
DEFAULT_PHOTO_SIZE == <<150, 150>>
PhotoSizes == {DEFAULT_PHOTO_SIZE, <<100, 100>>}
PhotoIds == {<<"e", "1">>, <<"e", "2">>}

\* None, or the empty string: `if name:` takes both the same way
NoName == <<>>
PhotoNames == {NoName, <<"a", "n", "n", " ", "l", "e", "e">>}

\* What the directory of images holds for an identity when it is read
FileStates == {"missing", "image", "corrupt"}

\* str.upper() on one character
UpperChar(c) ==
    CASE c = "a" -> "A" [] c = "e" -> "E" [] c = "l" -> "L" [] c = "n" -> "N"
      [] OTHER -> c

\* str.split(): the maximal runs of non-blank characters
RECURSIVE SplitFrom(_, _, _)
SplitFrom(str, i, word) ==
    IF i > Len(str)
    THEN IF word = <<>> THEN <<>> ELSE <<word>>
    ELSE IF str[i] = " "
         THEN (IF word = <<>> THEN <<>> ELSE <<word>>) \o SplitFrom(str, i + 1, <<>>)
         ELSE SplitFrom(str, i + 1, Append(word, str[i]))
Split(str) == SplitFrom(str, 1, <<>>)

\* The initials _generate_initials_photo draws
Initials(employee_id, name) ==
    IF name # NoName
    THEN LET parts == Split(name)
             n == IF Len(parts) < 2 THEN Len(parts) ELSE 2
         IN  [k \in 1..n |-> UpperChar(parts[k][1])]
    ELSE LET from == IF Len(employee_id) >= 2 THEN Len(employee_id) - 1 ELSE 1
         IN  [k \in 1..(Len(employee_id) - from + 1) |->
                UpperChar(employee_id[from + k - 1])]

_generate_initials_photo(employee_id, name, size) ==
    [drawn |-> "initials", text |-> Initials(employee_id, name), size |-> size]

\* _load_photo_from_disk on a file that exists: a decoded image, or on a
\* decode failure the initials of the file stem with PIL and a null pixmap
\* with Qt's own loader
_load_photo_from_disk(employee_id, size, file) ==
    IF file = "image"
    THEN [drawn |-> "photo", text |-> employee_id, size |-> size]
    ELSE IF pil_available
         THEN _generate_initials_photo(employee_id, NoName, size)
         ELSE [drawn |-> "null", text |-> <<>>, size |-> size]

\* f"{employee_id}_{w}x{h}": one key per identity and size
CacheKey(employee_id, size) == <<employee_id, size>>

CachedKeys(cache) == {cache[i].key : i \in DOMAIN cache}

\* self.photo_cache[key]
Cached(cache, key) == cache[CHOOSE i \in DOMAIN cache : cache[i].key = key].pixmap

\* _add_to_cache: drop the first entry when full, then store under the key
_add_to_cache_newest(cache, cap, key, pixmap) ==
    Append(IF Len(cache) >= cap THEN SubSeq(cache, 1, Len(cache) - 1) ELSE cache,
           [key |-> key, pixmap |-> pixmap])
_add_to_cache_unbounded(cache, cap, key, pixmap) ==
    Append(cache, [key |-> key, pixmap |-> pixmap])
_add_to_cache(cache, cap, key, pixmap) ==
    LET kept == IF Len(cache) >= cap THEN Tail(cache) ELSE cache
    IN  IF key \in CachedKeys(kept)
        THEN [i \in DOMAIN kept |->
                IF kept[i].key = key THEN [key |-> key, pixmap |-> pixmap]
                ELSE kept[i]]
        ELSE Append(kept, [key |-> key, pixmap |-> pixmap])

\* get_photo: the pixmap returned, the cache it leaves, and whether it hit
get_photo_touch(cache, cap, employee_id, name, size, file) ==
    LET key == CacheKey(employee_id, size)
    IN  IF key \in CachedKeys(cache)
        THEN [cache |-> Append(SelectSeq(cache, LAMBDA e : e.key # key),
                               [key |-> key, pixmap |-> Cached(cache, key)]),
              ret |-> Cached(cache, key), hit |-> TRUE, key |-> key]
        ELSE LET pixmap == IF file # "missing"
                           THEN _load_photo_from_disk(employee_id, size, file)
                           ELSE _generate_initials_photo(employee_id, name, size)
             IN  [cache |-> _add_to_cache(cache, cap, key, pixmap),
                  ret |-> pixmap, hit |-> FALSE, key |-> key]
get_photo(cache, cap, employee_id, name, size, file) ==
    LET key == CacheKey(employee_id, size)
    IN  IF key \in CachedKeys(cache)
        THEN [cache |-> cache, ret |-> Cached(cache, key), hit |-> TRUE,
              key |-> key]
        ELSE LET pixmap == IF file # "missing"
                           THEN _load_photo_from_disk(employee_id, size, file)
                           ELSE _generate_initials_photo(employee_id, name, size)
             IN  [cache |-> _add_to_cache(cache, cap, key, pixmap),
                  ret |-> pixmap, hit |-> FALSE, key |-> key]

RECURSIVE PreloadFrom_reload(_, _, _, _, _)
PreloadFrom_reload(acc, cap, employee_ids, files, i) ==
    IF i > Len(employee_ids) THEN acc
    ELSE LET key == CacheKey(employee_ids[i], DEFAULT_PHOTO_SIZE)
             pixmap == get_photo(<<>>, cap, employee_ids[i], NoName,
                                 DEFAULT_PHOTO_SIZE, files[employee_ids[i]]).ret
         IN  PreloadFrom_reload([cache |-> _add_to_cache(acc.cache, cap, key, pixmap),
                                 inserted |-> Append(acc.inserted, key)],
                                cap, employee_ids, files, i + 1)

\* preload_photos from the i-th identity on; acc holds the cache and the
\* keys inserted, files what the directory holds for each identity
RECURSIVE PreloadFrom(_, _, _, _, _)
PreloadFrom(acc, cap, employee_ids, files, i) ==
    IF i > Len(employee_ids) THEN acc
    ELSE LET key == CacheKey(employee_ids[i], DEFAULT_PHOTO_SIZE)
         IN  IF key \in CachedKeys(acc.cache)
             THEN PreloadFrom(acc, cap, employee_ids, files, i + 1)
             ELSE PreloadFrom([cache |-> get_photo(acc.cache, cap, employee_ids[i],
                                                   NoName, DEFAULT_PHOTO_SIZE,
                                                   files[employee_ids[i]]).cache,
                               inserted |-> Append(acc.inserted, key)],
                              cap, employee_ids, files, i + 1)

preload_photos(cache, cap, employee_ids, files) ==
    PreloadFrom([cache |-> cache, inserted |-> <<>>], cap, employee_ids, files, 1)

\* How many insertions one life of the cache is followed for: enough to
\* fill it and evict once
MaxInserted == cache_size + 1

InitCache ==
    /\ employees = <<>>
    /\ certifications = <<>>
    /\ cert_seq = 0
    /\ kind = "none"
    /\ batch = <<>>
    /\ runs = <<>>
    /\ last = [op |-> "__init__"]
    /\ photo_cache = <<>>
    /\ cache_size \in 1..MaxCacheSize
    /\ pil_available \in BOOLEAN
    /\ inserted = <<>>
    /\ RestIdle

\* A hit returns before the name or the directory is looked at, so one draw
\* of them stands for all
GetPhoto ==
    \E employee_id \in PhotoIds, size \in PhotoSizes :
      \E name \in IF CacheKey(employee_id, size) \in CachedKeys(photo_cache)
                  THEN {NoName} ELSE PhotoNames,
         file \in IF CacheKey(employee_id, size) \in CachedKeys(photo_cache)
                  THEN {"missing"} ELSE FileStates :
        \E r \in {get_photo(photo_cache, cache_size, employee_id, name, size, file)} :
            /\ r.hit \/ Len(inserted) < MaxInserted
            /\ photo_cache' = r.cache
            /\ inserted' = IF r.hit THEN inserted ELSE Append(inserted, r.key)
            /\ last' = [op |-> "get_photo", key |-> r.key, hit |-> r.hit,
                        ret |-> r.ret]
            /\ UNCHANGED <<storeVars, restVars, cache_size, pil_available>>

PreloadPhotos ==
    \E employee_ids \in UNION {[1..n -> PhotoIds] : n \in 0..MaxPreload} :
      \E files \in [{employee_ids[i] : i \in DOMAIN employee_ids} -> FileStates] :
        \E r \in {preload_photos(photo_cache, cache_size, employee_ids, files)} :
            /\ Len(inserted) + Len(r.inserted) <= MaxInserted
            /\ photo_cache' = r.cache
            /\ inserted' = inserted \o r.inserted
            /\ last' = [op |-> "preload_photos"]
            /\ UNCHANGED <<storeVars, restVars, cache_size, pil_available>>

ClearCache ==
    /\ photo_cache' = <<>>
    /\ inserted' = <<>>
    /\ last' = [op |-> "clear_cache"]
    /\ UNCHANGED <<storeVars, restVars, cache_size, pil_available>>

NextCache == GetPhoto \/ PreloadPhotos \/ ClearCache

SpecCache == InitCache /\ [][NextCache]_vars

\* C9: cache FIFO. Once C + 1 distinct keys have been inserted into an
\* empty cache of capacity C, the first-inserted key is absent and the
\* other C keys are present.
C9_CacheFifo ==
    ( /\ Len(inserted) = cache_size + 1
      /\ \A i, j \in DOMAIN inserted : inserted[i] = inserted[j] => i = j )
    => /\ inserted[1] \notin CachedKeys(photo_cache)
       /\ \A i \in 2..Len(inserted) : inserted[i] \in CachedKeys(photo_cache)

\* C9 witness: get_photo has just inserted the last of C + 1 distinct keys
C9_Witness ==
    /\ last.op = "get_photo"
    /\ ~last.hit
    /\ Len(inserted) = cache_size + 1
    /\ Cardinality({inserted[i] : i \in DOMAIN inserted}) = cache_size + 1

\* C10: cache bound. The cache never holds more entries than its capacity,
\* and a get_photo that inserts into a full cache removes exactly the
\* oldest entry and appends the new one.
C10_CacheBound ==
    /\ [](Len(photo_cache) <= cache_size)
    /\ [][( /\ last'.op = "get_photo"
            /\ ~last'.hit
            /\ Len(photo_cache) = cache_size )
          => photo_cache' = Append(Tail(photo_cache),
                                   [key |-> last'.key, pixmap |-> last'.ret])]_vars

\* C10 witness: a full cache of more than one entry after get_photo
\* inserted into a full cache
C10_Witness ==
    /\ last.op = "get_photo"
    /\ ~last.hit
    /\ Len(inserted) > cache_size
    /\ Len(photo_cache) = cache_size
    /\ cache_size > 1

\* C18: get_photo never surfaces a failure. Whether the stored file is
\* missing or cannot be decoded, get_photo returns an image, a decoded
\* photo or the synthetic fallback, and that image is in the cache under
\* the (identity, size) key when the call returns.
C18_NeverFails ==
    last.op = "get_photo"
    => /\ last.ret.drawn \in {"photo", "initials"}
       /\ last.key \in CachedKeys(photo_cache)
       /\ Cached(photo_cache, last.key) = last.ret

\* The keys of the cache in eviction order, first out first
EvictionOrder == [i \in DOMAIN photo_cache |-> photo_cache[i].key]

\* C20: no recency protection. A get_photo that hits returns the stored
\* image and changes neither the cache contents nor the eviction order; the
\* eviction order is always the order of insertion, so the next key to be
\* evicted is the one inserted longest ago however often it was read.
C20_NoRecency ==
    /\ [][(last'.op = "get_photo" /\ last'.hit)
            => /\ photo_cache' = photo_cache
               /\ last'.ret = Cached(photo_cache, last'.key)]_vars
    /\ [](/\ Len(photo_cache) <= Len(inserted)
          /\ EvictionOrder = SubSeq(inserted, Len(inserted) - Len(photo_cache) + 1,
                                    Len(inserted)))

\* C20 witness: a full cache of more than one entry whose oldest key has
\* just been read again and is still the first to be evicted
C20_Witness ==
    /\ last.op = "get_photo"
    /\ last.hit
    /\ cache_size > 1
    /\ Len(photo_cache) = cache_size
    /\ last.key = photo_cache[1].key
    /\ last.key = inserted[1]

(***************************************************************************)
(* One get_photo call on a fresh PhotoManager, with the call and what the  *)
(* directory held recorded next to the pixmap returned.                    *)
(***************************************************************************)
FallbackIds == PhotoIds \cup {<<"e">>}
FallbackNames ==
    PhotoNames \cup {<<"a", "n", "n">>, <<" ">>, <<"a", " ", "l", " ", "e">>}

FirstLookup ==
    /\ photo_cache = <<>>
    /\ \E employee_id \in FallbackIds, name \in FallbackNames,
          size \in PhotoSizes, file \in FileStates :
        \E r \in {get_photo(photo_cache, cache_size, employee_id, name, size, file)} :
            /\ photo_cache' = r.cache
            /\ inserted' = Append(inserted, r.key)
            /\ last' = [op |-> "get_photo", employee_id |-> employee_id,
                        name |-> name, file |-> file, key |-> r.key,
                        hit |-> r.hit, ret |-> r.ret]
    /\ UNCHANGED <<storeVars, restVars, cache_size, pil_available>>

SpecFallback == InitCache /\ [][FirstLookup]_vars

\* C21: fallback initials. Whenever get_photo falls back to the synthetic
\* image, because no stored file is found or because the stored file fails
\* to decode, the initials drawn are the uppercased first letters of up to
\* the first two tokens of the name the caller passed, and the uppercased
\* last two characters of the identity only when no name was passed.
C21_FallbackInitials ==
    (last.op = "get_photo" /\ last.file # "image")
    => /\ last.ret.drawn = "initials"
       /\ last.ret.text = Initials(last.employee_id, last.name)

(***************************************************************************)
(* The cache followed through any lookups and then one preload_photos      *)
(* call, with the list preloaded and what the directory held for each of   *)
(* its identities recorded.  The lookups before it pass no name.           *)
(***************************************************************************)
LookupBeforePreload ==
    /\ last.op # "preload_photos"
    /\ \E employee_id \in PhotoIds, size \in PhotoSizes :
        \E file \in IF CacheKey(employee_id, size) \in CachedKeys(photo_cache)
                    THEN {"missing"} ELSE FileStates :
          \E r \in {get_photo(photo_cache, cache_size, employee_id, NoName, size,
                              file)} :
            /\ r.hit \/ Len(inserted) < MaxInserted
            /\ photo_cache' = r.cache
            /\ inserted' = IF r.hit THEN inserted ELSE Append(inserted, r.key)
            /\ last' = [op |-> "get_photo", key |-> r.key, hit |-> r.hit,
                        ret |-> r.ret]
    /\ UNCHANGED <<storeVars, restVars, cache_size, pil_available>>

PreloadListed ==
    /\ last.op # "preload_photos"
    /\ \E employee_ids \in UNION {[1..n -> PhotoIds] : n \in 0..MaxPreload} :
        \E files \in [{employee_ids[i] : i \in DOMAIN employee_ids} -> FileStates] :
          \E r \in {preload_photos(photo_cache, cache_size, employee_ids, files)} :
            /\ photo_cache' = r.cache
            /\ inserted' = inserted \o r.inserted
            /\ last' = [op |-> "preload_photos", employee_ids |-> employee_ids,
                        files |-> files, before |-> photo_cache]
    /\ UNCHANGED <<storeVars, restVars, cache_size, pil_available>>

NextPreload == LookupBeforePreload \/ PreloadListed

SpecPreload == InitCache /\ [][NextPreload]_vars

\* The cache when the loop of the recorded preload_photos call reaches the
\* i-th identity of its list
CacheAt(i) ==
    preload_photos(last.before, cache_size, SubSeq(last.employee_ids, 1, i - 1),
                   last.files).cache

\* C22: preload_photos looks up only the identities whose default-size key
\* is absent from the cache when the loop reaches them: for an identity
\* whose key is present the cache keeps every image and the eviction order,
\* an identity whose key is absent is looked up and cached; and after a
\* list of at most `capacity` distinct identities was preloaded into an
\* empty cache, each of them is present under its default-size key.
C22_PreloadOnlyAbsent ==
    last.op = "preload_photos"
    => /\ photo_cache = CacheAt(Len(last.employee_ids) + 1)
       /\ \A i \in DOMAIN last.employee_ids :
             LET key == CacheKey(last.employee_ids[i], DEFAULT_PHOTO_SIZE)
             IN  IF key \in CachedKeys(CacheAt(i))
                 THEN CacheAt(i + 1) = CacheAt(i)
                 ELSE /\ key \in CachedKeys(CacheAt(i + 1))
                      /\ \A k \in CachedKeys(CacheAt(i + 1)) \ {key} :
                            /\ k \in CachedKeys(CacheAt(i))
                            /\ Cached(CacheAt(i + 1), k) = Cached(CacheAt(i), k)
       /\ ( /\ last.before = <<>>
            /\ Len(last.employee_ids) <= cache_size
            /\ \A i, j \in DOMAIN last.employee_ids :
                  last.employee_ids[i] = last.employee_ids[j] => i = j )
          => \A i \in DOMAIN last.employee_ids :
                CacheKey(last.employee_ids[i], DEFAULT_PHOTO_SIZE)
                    \in CachedKeys(photo_cache)

\* C22 witness: a list naming one identity whose default-size image was
\* cached and one whose was not has been preloaded into a cache with room,
\* and the cached image is still first in the eviction order
C22_Witness ==
    /\ last.op = "preload_photos"
    /\ Len(last.employee_ids) = 2
    /\ Len(last.before) = 1
    /\ last.before[1].key = CacheKey(last.employee_ids[1], DEFAULT_PHOTO_SIZE)
    /\ last.employee_ids[2] # last.employee_ids[1]
    /\ Len(photo_cache) = 2
    /\ photo_cache[1] = last.before[1]

(***************************************************************************)
(* The worker store with every update recorded next to its outcome: the    *)
(* keyword arguments of a direct update_employee, the batch of a           *)
(* bulk_import_employees.                                                  *)
(***************************************************************************)
MergeRecords ==
    {[employee_id |-> "E1", name |-> "Ann"],
     [employee_id |-> "E2", name |-> "Bob"],
     [employee_id |-> "E1", name |-> "Bob", status |-> "leave"],
     [employee_id |-> "E2", shift |-> "DAY"]}

MergeUpdate ==
    /\ \E id \in Ids, kwargs \in UpdateKwargs :
        \E r \in {update_employee(employees, id, kwargs)} :
            /\ employees' = r.tbl
            /\ last' = [op |-> "update_employee", id |-> id, kwargs |-> kwargs,
                        ret |-> r.ret]
    /\ UNCHANGED <<certifications, cert_seq, kind, batch, runs, cacheVars, restVars>>

MergeImport ==
    /\ \E records \in BatchesOf(MergeRecords) :
        \E r \in {bulk_import_employees(employees, records)} :
            /\ employees' = r.tbl
            /\ last' = [op |-> "bulk_import_employees", records |-> records,
                        ret |-> <<r.success, r.errors>>]
    /\ UNCHANGED <<certifications, cert_seq, kind, batch, runs, cacheVars, restVars>>

NextMerge == AddEmployee \/ MergeUpdate \/ MergeImport

SpecMerge == Init /\ [][NextMerge]_vars

\* C23: merge is not replace. When update_employee is applied to a stored
\* Worker, directly or by bulk_import_employees, no row is added or removed,
\* every column of that Worker the call does not name keeps its value, and
\* every other Worker row is unchanged.
C23_MergeNotReplace ==
    [][/\ last'.op = "update_employee"
          => /\ Len(employees') = Len(employees)
             /\ \A i \in DOMAIN employees :
                   IF employees[i].employee_id = last'.id
                   THEN \A c \in EmployeeColumns \ ColumnsNamed(last'.kwargs) :
                           employees'[i][c] = employees[i][c]
                   ELSE employees'[i] = employees[i]
       /\ last'.op = "bulk_import_employees"
          => /\ Len(employees') >= Len(employees)
             /\ \A i \in DOMAIN employees :
                   \A c \in EmployeeColumns \
                          NamedInBatch(last'.records, employees[i].employee_id) :
                      employees'[i][c] = employees[i][c]]_vars

\* C23 witness: with two workers stored, an update that named only the
\* shift was applied to a worker who is on leave, and still is
C23_Witness ==
    /\ last.op = "update_employee"
    /\ last.ret
    /\ last.kwargs = [shift |-> "DAY"]
    /\ Len(employees) = 2
    /\ \E i \in DOMAIN employees :
          /\ employees[i].employee_id = last.id
          /\ employees[i].shift = "DAY"
          /\ employees[i].status = "leave"

(***************************************************************************)
(* Eligibility (database.py 370-387) and the free-running certification    *)
(* store: add_certification and check_certification calls while the days   *)
(* pass.                                                                   *)
(***************************************************************************)
MaxCertRows == 2  \* most certifications the certification store is grown to

CERT_STATUSES == {"active", "expired", "revoked"}
Processes == {"PICK", "STOW"}

\* col = ? in a WHERE clause: never true of NULL
SqlEq(col, param) == col # NULL /\ param # NULL /\ col = param

\* date('now')
DateNow == isoformat(today)

\* check_certification: COUNT(*) of the rows the WHERE clause keeps, > 0
check_certification_inclusive(tbl, employee_id, process_path) ==
    Cardinality({i \in DOMAIN tbl :
        /\ SqlEq(tbl[i].employee_id, employee_id)
        /\ SqlEq(tbl[i].process_path, process_path)
        /\ tbl[i].status = "active"
        /\ (tbl[i].expiration_date = NoDate
              \/ ~TextLess(tbl[i].expiration_date, DateNow))}) > 0
check_certification(tbl, employee_id, process_path) ==
    Cardinality({i \in DOMAIN tbl :
        /\ SqlEq(tbl[i].employee_id, employee_id)
        /\ SqlEq(tbl[i].process_path, process_path)
        /\ tbl[i].status = "active"
        /\ (tbl[i].expiration_date = NoDate
              \/ TextLess(DateNow, tbl[i].expiration_date))}) > 0

\* The store file _initialize_database opens may already hold a
\* certification whose status was set outside database.py, which itself
\* only ever inserts 'active' rows
CertTablesOpened ==
    {<<>>}
    \cup {<<[NewCertificationRow(0, [CertBase("E1", "PICK") EXCEPT
                                       !.certified_date = Days[1]])
               EXCEPT !.status = s]>> : s \in CERT_STATUSES \ {"active"}}

\* The certifications the free-running store is handed
CertInputs ==
    {[CertBase("E1", p) EXCEPT !.certified_date = Days[1]] : p \in Processes}
    \cup {[employee_id |-> "E1", process_path |-> p, level |-> "LC1",
           certified_date |-> Days[1], expiration_date |-> x] :
             p \in Processes, x \in DaySet}
    \cup {[CertBase("E1", "PICK") EXCEPT !.level = "LC9"]}

InitCert ==
    /\ employees = <<>>
    /\ certifications \in CertTablesOpened
    /\ cert_seq = Len(certifications)
    /\ kind = "none"
    /\ batch = <<>>
    /\ runs = <<>>
    /\ last = [op |-> "open"]
    /\ CacheIdle
    /\ today = Days[1]
    /\ assignments = <<>>
    /\ assign_seq = 0
    /\ metadata = <<>>
    /\ LogIdle
    /\ SharedIdle

AddCertification ==
    /\ Len(certifications) < MaxCertRows
    /\ \E cert \in CertInputs :
        \E r \in {add_certification(certifications, cert_seq, cert)} :
            /\ certifications' = r.tbl
            /\ cert_seq' = r.seq
            /\ last' = [op |-> "add_certification", ret |-> r.ret]
    /\ UNCHANGED <<employees, kind, batch, runs, cacheVars, restVars>>

CheckCertification ==
    /\ \E employee_id \in Ids, process_path \in Processes :
        last' = [op |-> "check_certification", employee_id |-> employee_id,
                 process_path |-> process_path,
                 ret |-> check_certification(certifications, employee_id,
                                             process_path)]
    /\ UNCHANGED <<storeVars, cacheVars, restVars>>

\* Midnight (UTC) passes
NextDay ==
    /\ \E i \in 1..(Len(Days) - 1) : today = Days[i] /\ today' = Days[i + 1]
    /\ last' = [op |-> "midnight"]
    /\ UNCHANGED <<storeVars, cacheVars, assignVars, sharedVars, metadata, logVars>>

NextCert == AddCertification \/ CheckCertification \/ NextDay

SpecCert == InitCert /\ [][NextCert]_vars

\* d1 is a later calendar day than d2
LaterDay(d1, d2) ==
    \/ d1[1] > d2[1]
    \/ d1[1] = d2[1] /\ d1[2] > d2[2]
    \/ d1[1] = d2[1] /\ d1[2] = d2[2] /\ d1[3] > d2[3]

\* The certifications a table holds for a worker and a process
CertsOf(tbl, employee_id, process_path) ==
    {tbl[i] : i \in {j \in DOMAIN tbl : /\ tbl[j].employee_id = employee_id
                                        /\ tbl[j].process_path = process_path}}

\* A certification is currently valid: active, and no expiration day or one
\* strictly after today
CurrentlyValid(row) ==
    /\ row.status = "active"
    /\ \/ row.expiration_date = NoDate
       \/ \E d \in DaySet \cup {<<2026, 1, 5>>, <<2027, 1, 5>>} :
             row.expiration_date = isoformat(d) /\ LaterDay(d, today)

\* C11: eligibility. check_certification(worker, process) returns true
\* exactly when the store holds a certification of that worker and process
\* that is active and has no expiration date or one strictly later than the
\* current date; one that expires today does not count.
C11_Eligibility ==
    last.op = "check_certification" =>
      /\ last.ret = (\E row \in CertsOf(certifications, last.employee_id,
                                        last.process_path) : CurrentlyValid(row))
      /\ (\A row \in CertsOf(certifications, last.employee_id, last.process_path) :
             row.expiration_date = DateNow) => last.ret = FALSE

\* C11 witness: the only certification of the worker and process expires
\* today and the check said no
C11_Witness ==
    /\ last.op = "check_certification"
    /\ last.ret = FALSE
    /\ CertsOf(certifications, last.employee_id, last.process_path) # {}
    /\ \A row \in CertsOf(certifications, last.employee_id, last.process_path) :
          row.status = "active" /\ row.expiration_date = DateNow

(***************************************************************************)
(* Assignments (database.py 62-77, 246-331, 432-472).  The model carries   *)
(* the key, the two NOT NULL columns, the CHECK-constrained columns and    *)
(* position_type; assigned_at, assigned_by and notes are unconstrained.    *)
(* aisle is an int and shift_date a date, as create_assignment types them. *)
(***************************************************************************)
MaxAssignments == 2  \* most assignments the assignment store is grown to

CLUSTERS == <<"A", "B", "C", "D", "E", "F", "G", "H", "I", "J", "K", "L", "M">>
ClusterSet == {CLUSTERS[k] : k \in DOMAIN CLUSTERS}
AISLES == 1..30
ASSIGNMENT_STATUSES == {"active", "completed", "cancelled"}
AssignmentColumns ==
    {"assignment_id", "employee_id", "shift_date", "cluster", "aisle",
     "position_type", "status"}

\* NOT NULL and CHECK constraints of one assignments row
AssignmentRowOK_noaisle(row) ==
    /\ row.employee_id # NULL
    /\ row.shift_date # NoDate
    /\ (row.cluster = NULL \/ row.cluster \in ClusterSet)
    /\ row.status \in ASSIGNMENT_STATUSES
AssignmentRowOK(row) ==
    /\ row.employee_id # NULL
    /\ row.shift_date # NoDate
    /\ (row.cluster = NULL \/ row.cluster \in ClusterSet)
    /\ row.aisle \in AISLES
    /\ row.status \in ASSIGNMENT_STATUSES

\* The row INSERT builds; assignment_id comes from the AUTOINCREMENT counter
NewAssignmentRow(seq, a) ==
    [assignment_id |-> seq + 1,
     employee_id   |-> a.employee_id,
     shift_date    |-> isoformat(a.shift_date),
     cluster       |-> a.cluster,
     aisle         |-> a.aisle,
     position_type |-> a.position_type,
     status        |-> "active"]

\* create_assignment; ret is lastrowid, or None
create_assignment(tbl, seq, a) ==
    LET row == NewAssignmentRow(seq, a)
    IN  IF AssignmentRowOK(row)
        THEN [tbl |-> Append(tbl, row), seq |-> seq + 1, ok |-> TRUE,
              ret |-> seq + 1]
        ELSE [tbl |-> tbl, seq |-> seq, ok |-> FALSE, ret |-> NULL]

\* The rows WHERE assignment_id=? finds
RowsWithAssignmentId(tbl, id) == {i \in DOMAIN tbl : tbl[i].assignment_id = id}

\* One row after UPDATE assignments SET key=? for every key of kwargs
UpdatedAssignmentRow(row, kwargs) ==
    [c \in AssignmentColumns |-> IF c \in DOMAIN kwargs THEN kwargs[c] ELSE row[c]]

\* Python binds update_assignment(id, **kwargs): assignment_id may not come
\* twice
BindUpdateAssignment(kwargs) == "assignment_id" \notin DOMAIN kwargs

\* update_assignment(assignment_id, **kwargs) on a bound call
update_assignment_partial(tbl, id, kwargs) ==
    IF DOMAIN kwargs = {} \/ ~(DOMAIN kwargs \subseteq AssignmentColumns)
    THEN [tbl |-> tbl, ok |-> FALSE, ret |-> FALSE]
    ELSE IF \E i \in RowsWithAssignmentId(tbl, id) :
                ~AssignmentRowOK(UpdatedAssignmentRow(tbl[i], kwargs))
    THEN [tbl |-> [i \in DOMAIN tbl |->
                     IF i \in RowsWithAssignmentId(tbl, id)
                     THEN [c \in AssignmentColumns |->
                             IF /\ c \in DOMAIN kwargs
                                /\ AssignmentRowOK([tbl[i] EXCEPT ![c] = kwargs[c]])
                             THEN kwargs[c] ELSE tbl[i][c]]
                     ELSE tbl[i]],
          ok |-> FALSE, ret |-> FALSE]
    ELSE [tbl |-> [i \in DOMAIN tbl |->
                     IF i \in RowsWithAssignmentId(tbl, id)
                     THEN UpdatedAssignmentRow(tbl[i], kwargs) ELSE tbl[i]],
          ok |-> TRUE, ret |-> TRUE]
update_assignment(tbl, id, kwargs) ==
    IF DOMAIN kwargs = {} \/ ~(DOMAIN kwargs \subseteq AssignmentColumns)
    THEN [tbl |-> tbl, ok |-> FALSE, ret |-> FALSE]   \* does not prepare
    ELSE IF \E i \in RowsWithAssignmentId(tbl, id) :
                ~AssignmentRowOK(UpdatedAssignmentRow(tbl[i], kwargs))
    THEN [tbl |-> tbl, ok |-> FALSE, ret |-> FALSE]   \* constraint violation
    ELSE [tbl |-> [i \in DOMAIN tbl |->
                     IF i \in RowsWithAssignmentId(tbl, id)
                     THEN UpdatedAssignmentRow(tbl[i], kwargs) ELSE tbl[i]],
          ok |-> TRUE, ret |-> TRUE]

\* delete_assignment: UPDATE assignments SET status='cancelled'
delete_assignment_checked(tbl, id) ==
    IF RowsWithAssignmentId(tbl, id) = {}
    THEN [tbl |-> tbl, ok |-> FALSE, ret |-> FALSE]
    ELSE [tbl |-> [i \in DOMAIN tbl |->
                     IF i \in RowsWithAssignmentId(tbl, id)
                     THEN [tbl[i] EXCEPT !.status = "cancelled"] ELSE tbl[i]],
          ok |-> TRUE, ret |-> TRUE]
delete_assignment(tbl, id) ==
    [tbl |-> [i \in DOMAIN tbl |->
                IF i \in RowsWithAssignmentId(tbl, id)
                THEN [tbl[i] EXCEPT !.status = "cancelled"] ELSE tbl[i]],
     ok |-> TRUE, ret |-> TRUE]

\* ORDER BY a.cluster, a.aisle: NULL first, then the letters in order
ClusterRank(c) ==
    IF c = NULL THEN 0 ELSE CHOOSE k \in DOMAIN CLUSTERS : CLUSTERS[k] = c

\* Row i comes before row j in the ordered result (ties in rowid order)
OrderedBefore(tbl, i, j) ==
    \/ ClusterRank(tbl[i].cluster) < ClusterRank(tbl[j].cluster)
    \/ /\ ClusterRank(tbl[i].cluster) = ClusterRank(tbl[j].cluster)
       /\ \/ tbl[i].aisle < tbl[j].aisle
          \/ tbl[i].aisle = tbl[j].aisle /\ i < j

RECURSIVE OrderedRows(_, _)
OrderedRows(tbl, S) ==
    IF S = {} THEN <<>>
    ELSE LET first == CHOOSE i \in S : \A j \in S \ {i} : OrderedBefore(tbl, i, j)
         IN  <<first>> \o OrderedRows(tbl, S \ {first})

\* get_assignments_by_date: assignments JOIN employees, filtered and ordered
get_assignments_by_date(atbl, etbl, shift_date, status) ==
    LET kept == {i \in DOMAIN atbl :
                    /\ atbl[i].shift_date = isoformat(shift_date)
                    /\ atbl[i].status = status
                    /\ RowsWithId(etbl, atbl[i].employee_id) # {}}
        order == OrderedRows(atbl, kept)
    IN  [k \in DOMAIN order |->
            [assignment |-> atbl[order[k]],
             name |-> get_employee(etbl, atbl[order[k]].employee_id).name]]

\* SELECT COUNT(*) ... WHERE shift_date = ? AND status = 'active', scanning
\* the rows from the n-th on
RECURSIVE CountActive(_, _, _)
CountActive(tbl, shift_date, n) ==
    IF n > Len(tbl) THEN 0
    ELSE (IF tbl[n].shift_date = isoformat(shift_date) /\ tbl[n].status = "active"
          THEN 1 ELSE 0) + CountActive(tbl, shift_date, n + 1)

\* ... GROUP BY col: one count per value of the column among the kept rows
RECURSIVE GroupCount(_, _, _, _)
GroupCount(tbl, shift_date, col, n) ==
    IF n > Len(tbl) THEN <<>>
    ELSE LET rest == GroupCount(tbl, shift_date, col, n + 1)
             v    == tbl[n][col]
         IN  IF tbl[n].shift_date = isoformat(shift_date) /\ tbl[n].status = "active"
             THEN [w \in DOMAIN rest \cup {v} |->
                     (IF w \in DOMAIN rest THEN rest[w] ELSE 0)
                     + (IF w = v THEN 1 ELSE 0)]
             ELSE rest

RECURSIVE GroupCountAll(_, _, _, _)
GroupCountAll(tbl, shift_date, col, n) ==
    IF n > Len(tbl) THEN <<>>
    ELSE LET rest == GroupCountAll(tbl, shift_date, col, n + 1)
             v    == tbl[n][col]
         IN  IF tbl[n].shift_date = isoformat(shift_date)
             THEN [w \in DOMAIN rest \cup {v} |->
                     (IF w \in DOMAIN rest THEN rest[w] ELSE 0)
                     + (IF w = v THEN 1 ELSE 0)]
             ELSE rest

\* get_coverage_summary
get_coverage_summary_anystatus(tbl, shift_date) ==
    [total_assignments |-> CountActive(tbl, shift_date, 1),
     by_cluster        |-> GroupCountAll(tbl, shift_date, "cluster", 1),
     by_position       |-> GroupCount(tbl, shift_date, "position_type", 1)]
get_coverage_summary(tbl, shift_date) ==
    [total_assignments |-> CountActive(tbl, shift_date, 1),
     by_cluster        |-> GroupCount(tbl, shift_date, "cluster", 1),
     by_position       |-> GroupCount(tbl, shift_date, "position_type", 1)]

(***************************************************************************)
(* The free-running assignment store: any sequence of create, update,      *)
(* cancel and query calls on a store that holds one worker, E1.  E2 has no *)
(* worker row: the FOREIGN KEY is declared but the connection never turns  *)
(* its enforcement on.                                                     *)
(***************************************************************************)
AssignmentArgs(e, d, c, a) ==
    [employee_id |-> e, shift_date |-> d, cluster |-> c, aisle |-> a,
     position_type |-> "PICK"]

AssignInputs ==
    {AssignmentArgs("E1", Days[1], "A", 1), AssignmentArgs("E1", Days[1], "B", 1),
     AssignmentArgs("E1", Days[2], "A", 1), AssignmentArgs("E2", Days[1], "A", 1),
     AssignmentArgs("E1", Days[1], "Z", 1), AssignmentArgs("E1", Days[1], "A", 31),
     AssignmentArgs("E1", Days[1], "A", 0)}

AssignKwargs ==
    {[status |-> "completed"], [status |-> "bogus"], [cluster |-> "Z"],
     [cluster |-> "B", aisle |-> 99], [badge |-> "x"], <<>>}

\* The ids a call may name: those issued, and one that matches no row
AssignmentIdsNamed == 1..(assign_seq + 1)

InitAssign ==
    /\ employees = <<WorkerRow0("E1", "Ann", NULL)>>
    /\ certifications = <<>>
    /\ cert_seq = 0
    /\ kind = "none"
    /\ batch = <<>>
    /\ runs = <<>>
    /\ last = [op |-> "open"]
    /\ CacheIdle
    /\ today = Days[1]
    /\ assignments = <<>>
    /\ assign_seq = 0
    /\ metadata = <<>>
    /\ LogIdle
    /\ SharedIdle

CreateAssignment ==
    /\ Len(assignments) < MaxAssignments
    /\ \E a \in AssignInputs :
        \E r \in {create_assignment(assignments, assign_seq, a)} :
            /\ assignments' = r.tbl
            /\ assign_seq' = r.seq
            /\ last' = [op |-> "create_assignment", ok |-> r.ok, ret |-> r.ret]
    /\ UNCHANGED <<storeVars, cacheVars, today, sharedVars, metadata, logVars>>

UpdateAssignment ==
    /\ \E id \in AssignmentIdsNamed, kwargs \in AssignKwargs :
        \E r \in {update_assignment(assignments, id, kwargs)} :
            /\ assignments' = r.tbl
            /\ last' = [op |-> "update_assignment", id |-> id, ok |-> r.ok,
                        ret |-> r.ret]
    /\ UNCHANGED <<storeVars, cacheVars, today, assign_seq, sharedVars, metadata, logVars>>

DeleteAssignment ==
    /\ \E id \in AssignmentIdsNamed :
        \E r \in {delete_assignment(assignments, id)} :
            /\ assignments' = r.tbl
            /\ last' = [op |-> "delete_assignment", id |-> id, ok |-> r.ok,
                        ret |-> r.ret]
    /\ UNCHANGED <<storeVars, cacheVars, today, assign_seq, sharedVars, metadata, logVars>>

GetAssignmentsByDate ==
    /\ \E d \in {Days[1], Days[2]}, status \in {"active", "cancelled"} :
        last' = [op |-> "get_assignments_by_date", shift_date |-> d,
                 status |-> status,
                 ret |-> get_assignments_by_date(assignments, employees, d, status)]
    /\ UNCHANGED <<storeVars, cacheVars, restVars>>

GetCoverageSummary ==
    /\ \E d \in {Days[1], Days[2]} :
        last' = [op |-> "get_coverage_summary", shift_date |-> d,
                 ret |-> get_coverage_summary(assignments, d)]
    /\ UNCHANGED <<storeVars, cacheVars, restVars>>

NextAssign ==
    \/ CreateAssignment
    \/ UpdateAssignment
    \/ DeleteAssignment
    \/ GetAssignmentsByDate
    \/ GetCoverageSummary

SpecAssign == InitAssign /\ [][NextAssign]_vars

AssignmentIds(tbl) == {tbl[i].assignment_id : i \in DOMAIN tbl}

\* C12: cancelling is logical. delete_assignment on an existing Assignment
\* keeps its row, with status 'cancelled' and every other field as it was,
\* and get_assignments_by_date(its date, 'cancelled') returns every
\* cancelled Assignment of that date.
C12_LogicalCancel ==
    /\ [][(last'.op = "delete_assignment" /\ last'.id \in AssignmentIds(assignments))
            => /\ Len(assignments') = Len(assignments)
               /\ \A i \in DOMAIN assignments :
                     assignments'[i] =
                        IF assignments[i].assignment_id = last'.id
                        THEN [assignments[i] EXCEPT !.status = "cancelled"]
                        ELSE assignments[i]]_vars
    /\ [](last.op = "get_assignments_by_date" /\ last.status = "cancelled"
            => \A i \in DOMAIN assignments :
                  ( /\ assignments[i].status = "cancelled"
                    /\ assignments[i].shift_date = isoformat(last.shift_date) )
                  => \E k \in DOMAIN last.ret :
                        last.ret[k].assignment = assignments[i])

\* The Assignments of a date that count: status 'active'
ActiveOn(tbl, d) ==
    {i \in DOMAIN tbl : tbl[i].shift_date = isoformat(d) /\ tbl[i].status = "active"}

\* C13: coverage summary. get_coverage_summary(date) reports as
\* total_assignments the number of active Assignments of that date and as
\* by_cluster, for each cluster that has one, the number in that cluster;
\* cancelled and completed Assignments of the date enter no count.
C13_CoverageCounts ==
    last.op = "get_coverage_summary" =>
      LET on == ActiveOn(assignments, last.shift_date)
      IN  /\ last.ret.total_assignments = Cardinality(on)
          /\ DOMAIN last.ret.by_cluster = {assignments[i].cluster : i \in on}
          /\ \A c \in DOMAIN last.ret.by_cluster :
                last.ret.by_cluster[c] =
                   Cardinality({i \in on : assignments[i].cluster = c})

\* C13 witness: a summary of a date that has an active Assignment and a
\* cancelled one
C13_Witness ==
    /\ last.op = "get_coverage_summary"
    /\ last.ret.total_assignments = 1
    /\ \E i \in DOMAIN assignments :
          /\ assignments[i].shift_date = isoformat(last.shift_date)
          /\ assignments[i].status = "cancelled"

(***************************************************************************)
(* Processes sharing one store file (database.py 22-39, 134-145, 246-264). *)
(* Each process has its own connection in WAL mode with a busy timeout.    *)
(* A write is cursor.execute (an implicit BEGIN, then the INSERT, which    *)
(* takes the file's one write lock or retries while another connection     *)
(* holds it) followed by connection.commit, which appends the row to the   *)
(* -wal file and gives the lock back.  A checkpoint copies the -wal rows   *)
(* into the primary file.  Time is counted in busy-handler retries.        *)
(***************************************************************************)
MaxCalls == 3      \* calls the processes make between them
MaxBusyWaits == 2  \* busy-handler retries that fit in DB_BUSY_TIMEOUT_MS

Procs == {1, 2}

\* The rows committed to the store: primary file and -wal together
Stored == main_file \cup {wal[i] : i \in DOMAIN wal}

\* What the INSERT of cursor.execute comes to: with the lock free it inserts
\* or fails its constraints; else the busy handler retries until the
\* timeout is used up, then "database is locked" is raised
ExecuteStep_nobusy(lock_free, valid, retries) ==
    IF lock_free THEN (IF valid THEN "inserted" ELSE "constraint") ELSE "locked"
ExecuteStep_forever(lock_free, valid, retries) ==
    IF lock_free THEN (IF valid THEN "inserted" ELSE "constraint") ELSE "retry"
ExecuteStep(lock_free, valid, retries) ==
    IF lock_free THEN (IF valid THEN "inserted" ELSE "constraint")
    ELSE IF retries < MaxBusyWaits THEN "retry" ELSE "locked"

InitShared ==
    /\ employees = <<>>
    /\ certifications = <<>>
    /\ cert_seq = 0
    /\ kind = "none"
    /\ batch = <<>>
    /\ runs = <<>>
    /\ last = [op |-> "open"]
    /\ CacheIdle
    /\ today = Days[1]
    /\ assignments = <<>>
    /\ assign_seq = 0
    /\ metadata = <<>>
    /\ LogIdle
    /\ pc = [p \in Procs |-> "idle"]
    /\ req = [p \in Procs |-> <<>>]
    /\ in_tx = [p \in Procs |-> FALSE]
    /\ waited = [p \in Procs |-> 0]
    /\ writer = 0
    /\ issued = 0
    /\ wal = <<>>
    /\ main_file = {}
    /\ backup = <<>>

\* A process calls create_assignment: cursor.execute opens the implicit
\* transaction and starts the INSERT of a row no other call writes
Call(p) ==
    /\ pc[p] = "idle"
    /\ issued < MaxCalls
    /\ \E valid \in BOOLEAN :
          req' = [req EXCEPT ![p] = [by |-> p, n |-> issued + 1, valid |-> valid]]
    /\ pc' = [pc EXCEPT ![p] = "execute"]
    /\ in_tx' = [in_tx EXCEPT ![p] = TRUE]
    /\ waited' = [waited EXCEPT ![p] = 0]
    /\ issued' = issued + 1
    /\ UNCHANGED <<storeVars, cacheVars, today, assignVars, metadata, logVars,
                   last, writer, wal, main_file, backup>>

\* What the call hands back to its caller
Returned(p, ok) ==
    [op |-> "create_assignment", proc |-> p, row |-> req[p], ok |-> ok,
     waited |-> waited[p]]

\* The INSERT runs, waits, or raises; on an exception the except clause
\* returns None and nothing ends the transaction
Execute(p) ==
    /\ pc[p] = "execute"
    /\ LET step == ExecuteStep(writer \in {0, p}, req[p].valid, waited[p])
       IN  CASE step = "inserted" ->
                  /\ writer' = p
                  /\ pc' = [pc EXCEPT ![p] = "commit"]
                  /\ UNCHANGED <<waited, last>>
             [] step = "constraint" ->
                  /\ writer' = p
                  /\ pc' = [pc EXCEPT ![p] = "idle"]
                  /\ last' = Returned(p, FALSE)
                  /\ UNCHANGED waited
             [] step = "retry" ->
                  /\ waited' = [waited EXCEPT ![p] = waited[p] + 1]
                  /\ UNCHANGED <<writer, pc, last>>
             [] step = "locked" ->
                  /\ pc' = [pc EXCEPT ![p] = "idle"]
                  /\ last' = Returned(p, FALSE)
                  /\ UNCHANGED <<writer, waited>>
    /\ UNCHANGED <<storeVars, cacheVars, today, assignVars, metadata, logVars,
                   req, in_tx, issued, wal, main_file, backup>>

\* connection.commit(), then return cursor.lastrowid
Commit(p) ==
    /\ pc[p] = "commit"
    /\ wal' = Append(wal, req[p])
    /\ writer' = 0
    /\ in_tx' = [in_tx EXCEPT ![p] = FALSE]
    /\ pc' = [pc EXCEPT ![p] = "idle"]
    /\ last' = Returned(p, TRUE)
    /\ UNCHANGED <<storeVars, cacheVars, today, assignVars, metadata, logVars,
                   req, waited, issued, main_file, backup>>

\* The engine checkpoints: the -wal rows go into the primary file
Checkpoint ==
    /\ wal # <<>>
    /\ main_file' = Stored
    /\ wal' = <<>>
    /\ last' = [op |-> "checkpoint"]
    /\ UNCHANGED <<storeVars, cacheVars, today, assignVars, metadata, logVars,
                   pc, req, in_tx, waited, writer, issued, backup>>

\* backup_database: shutil.copy2 of db_path, the primary file, alone.
\* committed notes the rows committed when the call returns.
Backup(p) ==
    /\ pc[p] = "idle"
    /\ issued < MaxCalls
    /\ backup' = [file |-> main_file, committed |-> Stored]
    /\ issued' = issued + 1
    /\ last' = [op |-> "backup_database", proc |-> p]
    /\ UNCHANGED <<storeVars, cacheVars, today, assignVars, metadata, logVars,
                   pc, req, in_tx, waited, writer, wal, main_file>>

NextShared ==
    \/ \E p \in Procs : Call(p)
    \/ \E p \in Procs : Execute(p)
    \/ \E p \in Procs : Commit(p)
    \/ \E p \in Procs : Backup(p)
    \/ Checkpoint

SpecShared == InitShared /\ [][NextShared]_vars

\* C14: concurrent writers. A write of a row that meets its constraints
\* either commits, and its row is in the store when the call returns, or
\* reports failure after the whole lock-wait timeout was spent waiting; and
\* a committed row is never lost to a later write of another process.
C14_ConcurrentWriters ==
    /\ []((last.op = "create_assignment" /\ last.row.valid)
            => \/ last.ok /\ last.row \in Stored
               \/ ~last.ok /\ last.waited = MaxBusyWaits)
    /\ [][Stored \subseteq Stored']_vars

\* C14 witness: two processes wrote at the same moment, one of them waited
\* for the other within the timeout, and both rows are stored
C14_Witness ==
    /\ last.op = "create_assignment"
    /\ last.ok
    /\ last.waited > 0
    /\ \E r \in Stored : r.by # last.proc
    /\ last.row \in Stored

\* C15: backup completeness. The backup file, opened on its own, holds
\* every row that was committed when backup_database returned.
C15_BackupComplete ==
    backup # <<>> => backup.committed \subseteq backup.file

(***************************************************************************)
(* The metadata table (database.py 110-116) and set_metadata (509-519).    *)
(* The table is the sequence of its rows in rowid order; INSERT OR REPLACE *)
(* removes the row that holds the key and inserts the new one.  completes  *)
(* is FALSE when the engine raises on the statement or on the commit (the  *)
(* file is locked by another process, or an I/O error): the except clause  *)
(* prints it, and the method returns None either way.                      *)
(***************************************************************************)
set_metadata(tbl, key, value, completes) ==
    IF completes
    THEN [tbl |-> SelectSeq(tbl, LAMBDA r : r.key # key)
                     \o <<[key |-> key, value |-> value]>>,
          ok |-> TRUE, ret |-> NULL]
    ELSE [tbl |-> tbl, ok |-> FALSE, ret |-> NULL]

(***************************************************************************)
(* The seven writes of the store on one connection, run against one store  *)
(* in any order: add_employee, update_employee, create_assignment,         *)
(* update_assignment, delete_assignment, add_certification, set_metadata.  *)
(* last records the call (op, args, id) and its outcome (ok, ret).         *)
(***************************************************************************)
MaxRows == 3  \* most rows, over all tables, the written store is grown to

StoredRows ==
    Len(employees) + Len(assignments) + Len(certifications) + Len(metadata)

WriteEmployees ==
    {[employee_id |-> "E1", name |-> "Ann"],
     [employee_id |-> "E1", name |-> "Ann", shift |-> "SWING"],
     [employee_id |-> "E2", name |-> "Bob", status |-> "gone"],
     [employee_id |-> "E2", name |-> NULL]}

WriteEmployeeKwargs ==
    {[shift |-> "DAY"], [shift |-> "SWING"], [status |-> "leave"],
     [status |-> "gone"], [name |-> "Bob", shift |-> "SWING"],
     [login |-> "ann1"], [EMPLOYEE_ID |-> "E2"], <<>>}

WriteAssignments ==
    {AssignmentArgs("E1", Days[1], "A", 1), AssignmentArgs("E1", Days[1], "Z", 1),
     AssignmentArgs("E1", Days[1], "a", 1), AssignmentArgs("E1", Days[1], "A", 31),
     AssignmentArgs("E1", Days[1], "A", 0)}

WriteCertifications ==
    {[CertBase("E1", "PICK") EXCEPT !.certified_date = Days[1]],
     [CertBase("E1", "PICK") EXCEPT !.certified_date = Days[1], !.level = "LC9"],
     [CertBase("E1", "PICK") EXCEPT !.certified_date = Days[1], !.level = "lc1"]}

MetadataKeys == {"last_import"}
MetadataValues == {"v1", "v2"}

InitWrite ==
    /\ employees = <<>>
    /\ certifications = <<>>
    /\ cert_seq = 0
    /\ kind = "none"
    /\ batch = <<>>
    /\ runs = <<>>
    /\ last = [op |-> "open"]
    /\ CacheIdle
    /\ today = Days[1]
    /\ assignments = <<>>
    /\ assign_seq = 0
    /\ metadata = <<>>
    /\ LogIdle
    /\ SharedIdle

WriteAddEmployee ==
    /\ StoredRows < MaxRows
    /\ \E emp \in WriteEmployees :
        \E r \in {add_employee(employees, emp)} :
            /\ employees' = r.tbl
            /\ last' = [op |-> "add_employee", args |-> emp, ok |-> r.ok,
                        ret |-> r.ret]
    /\ UNCHANGED <<certifications, cert_seq, kind, batch, runs, cacheVars, restVars>>

WriteUpdateEmployee ==
    /\ \E id \in Ids, kwargs \in WriteEmployeeKwargs :
        \E r \in {update_employee(employees, id, kwargs)} :
            /\ employees' = r.tbl
            /\ last' = [op |-> "update_employee", id |-> id, args |-> kwargs,
                        ok |-> r.ok, ret |-> r.ret]
    /\ UNCHANGED <<certifications, cert_seq, kind, batch, runs, cacheVars, restVars>>

WriteCreateAssignment ==
    /\ StoredRows < MaxRows
    /\ \E a \in WriteAssignments :
        \E r \in {create_assignment(assignments, assign_seq, a)} :
            /\ assignments' = r.tbl
            /\ assign_seq' = r.seq
            /\ last' = [op |-> "create_assignment", args |-> a, ok |-> r.ok,
                        ret |-> r.ret]
    /\ UNCHANGED <<storeVars, cacheVars, today, sharedVars, metadata, logVars>>

WriteUpdateAssignment ==
    /\ \E id \in AssignmentIdsNamed, kwargs \in AssignKwargs :
        \E r \in {update_assignment(assignments, id, kwargs)} :
            /\ assignments' = r.tbl
            /\ last' = [op |-> "update_assignment", id |-> id, args |-> kwargs,
                        ok |-> r.ok, ret |-> r.ret]
    /\ UNCHANGED <<storeVars, cacheVars, today, assign_seq, sharedVars, metadata, logVars>>

WriteDeleteAssignment ==
    /\ \E id \in AssignmentIdsNamed :
        \E r \in {delete_assignment(assignments, id)} :
            /\ assignments' = r.tbl
            /\ last' = [op |-> "delete_assignment", id |-> id, args |-> <<>>,
                        ok |-> r.ok, ret |-> r.ret]
    /\ UNCHANGED <<storeVars, cacheVars, today, assign_seq, sharedVars, metadata, logVars>>

WriteAddCertification ==
    /\ StoredRows < MaxRows
    /\ \E cert \in WriteCertifications :
        \E r \in {add_certification(certifications, cert_seq, cert)} :
            /\ certifications' = r.tbl
            /\ cert_seq' = r.seq
            /\ last' = [op |-> "add_certification", args |-> cert, ok |-> r.ok,
                        ret |-> r.ret]
    /\ UNCHANGED <<employees, kind, batch, runs, cacheVars, restVars>>

SetMetadata ==
    /\ \E key \in MetadataKeys, value \in MetadataValues, completes \in BOOLEAN :
        /\ completes /\ (\A i \in DOMAIN metadata : metadata[i].key # key)
             => StoredRows < MaxRows
        /\ \E r \in {set_metadata(metadata, key, value, completes)} :
            /\ metadata' = r.tbl
            /\ last' = [op |-> "set_metadata", args |-> [key |-> key, value |-> value],
                        ok |-> r.ok, ret |-> r.ret]
    /\ UNCHANGED <<storeVars, cacheVars, today, assignVars, sharedVars, logVars>>

NextWrite ==
    \/ WriteAddEmployee
    \/ WriteUpdateEmployee
    \/ WriteCreateAssignment
    \/ WriteUpdateAssignment
    \/ WriteDeleteAssignment
    \/ WriteAddCertification
    \/ SetMetadata

SpecWrite == InitWrite /\ [][NextWrite]_vars

\* Every stored row and both id counters
Tables == <<employees, assignments, assign_seq, certifications, cert_seq, metadata>>

WriteOps ==
    {"add_employee", "update_employee", "create_assignment", "update_assignment",
     "delete_assignment", "add_certification", "set_metadata"}

\* The failure value of each write: False, or None
FailureValue(op) ==
    IF op \in {"add_employee", "update_employee", "update_assignment",
               "delete_assignment"}
    THEN FALSE ELSE NULL

\* An update names several fields and one of them is outside its domain
SeveralFieldsOneBad(op, args) ==
    /\ Cardinality(DOMAIN args) > 1
    /\ \/ op = "update_employee" /\ "shift" \in DOMAIN args
            /\ args.shift \notin {"DAY", "NIGHT", "TWILIGHT"}
       \/ op = "update_assignment" /\ "aisle" \in DOMAIN args
            /\ args.aisle \notin 1..30

\* C16: failure atomicity. A store write that cannot complete returns its
\* failure value and leaves every stored row as it was before the call; an
\* update that names several fields, one of them violating a constraint of
\* a row it matches, changes no field of any row.
C16_FailureAtomicity ==
    [][/\ (last'.op \in WriteOps /\ ~last'.ok)
           => /\ last'.ret = FailureValue(last'.op)
              /\ Tables' = Tables
       /\ (/\ last'.op \in {"update_employee", "update_assignment"}
           /\ SeveralFieldsOneBad(last'.op, last'.args))
           => Tables' = Tables]_vars

\* C16 witness: an update of a stored assignment that named a valid cluster
\* and an invalid aisle has returned False
C16_Witness ==
    /\ last.op = "update_assignment"
    /\ last.args = [cluster |-> "B", aisle |-> 99]
    /\ RowsWithAssignmentId(assignments, last.id) # {}
    /\ ~last.ok
    /\ last.ret = FALSE

\* A value the call gives for a constrained column lies outside the
\* column's domain
OutOfDomain(op, args) ==
    \/ /\ op \in {"add_employee", "update_employee"}
       /\ \/ "shift" \in DOMAIN args /\ args.shift # NULL
               /\ args.shift \notin {"DAY", "NIGHT", "TWILIGHT"}
          \/ "status" \in DOMAIN args
               /\ args.status \notin {"active", "inactive", "leave"}
    \/ /\ op \in {"create_assignment", "update_assignment"}
       /\ \/ "cluster" \in DOMAIN args /\ args.cluster # NULL
               /\ args.cluster \notin {"A", "B", "C", "D", "E", "F", "G", "H",
                                       "I", "J", "K", "L", "M"}
          \/ "aisle" \in DOMAIN args /\ args.aisle \notin 1..30
          \/ "status" \in DOMAIN args
               /\ args.status \notin {"active", "completed", "cancelled"}
    \/ /\ op = "add_certification"
       /\ args.level \notin {"LC1", "LC2", "LC3", "AMBASSADOR", "TRAINER"}

\* Every constrained column of every stored row holds a value of its domain
\* whenever it holds a value
DomainsHold ==
    /\ \A i \in DOMAIN employees :
          /\ employees[i].shift \in {"DAY", "NIGHT", "TWILIGHT", NULL}
          /\ employees[i].status \in {"active", "inactive", "leave", NULL}
    /\ \A i \in DOMAIN assignments :
          /\ assignments[i].cluster \in {"A", "B", "C", "D", "E", "F", "G", "H",
                                         "I", "J", "K", "L", "M", NULL}
          /\ assignments[i].aisle \in 1..30
          /\ assignments[i].status \in {"active", "completed", "cancelled"}
    /\ \A i \in DOMAIN certifications :
          /\ certifications[i].level \in {"LC1", "LC2", "LC3", "AMBASSADOR",
                                          "TRAINER", NULL}
          /\ certifications[i].status \in {"active", "expired", "revoked"}

\* The call is a create, or an update whose id matches a stored row
AppliesToARow ==
    /\ last'.op = "update_employee" => RowsWithId(employees, last'.id) # {}
    /\ last'.op = "update_assignment"
         => RowsWithAssignmentId(assignments, last'.id) # {}

\* The call was rejected: failure value returned, no row created or changed
Rejected ==
    /\ ~last'.ok
    /\ last'.ret = FailureValue(last'.op)
    /\ Tables' = Tables

CertificationIds(tbl) == {tbl[i].cert_id : i \in DOMAIN tbl}

\* C24: rows are never physically removed and assignment ids are never
\* reused. Over every store operation the sets of stored Worker identities,
\* assignment ids and certification ids only grow, and an id returned by
\* create_assignment differs from every id issued before it.
C24_RowsOnlyGrow ==
    [][/\ StoredIds(employees) \subseteq StoredIds(employees')
       /\ AssignmentIds(assignments) \subseteq AssignmentIds(assignments')
       /\ CertificationIds(certifications) \subseteq CertificationIds(certifications')
       /\ (last'.op = "create_assignment" /\ last'.ok)
            => last'.ret \notin 1..assign_seq]_vars

\* C25: lock-wait exhaustion. A write that finds the write transaction of
\* another process in flight waits no longer than the lock-wait bound; when
\* the bound is reached with that transaction still in flight the call
\* returns its failure value, and its row is absent from the store then and
\* is not written by the store later: only the commit of a call still in
\* progress adds a row.
C25_LockWaitExhaustion ==
    /\ [](\A p \in Procs : waited[p] <= MaxBusyWaits)
    /\ [][\A p \in Procs :
            (/\ pc[p] = "execute"
             /\ writer \notin {0, p}
             /\ waited[p] = MaxBusyWaits
             /\ <<pc[p], waited[p]>> # <<pc'[p], waited'[p]>>)
            => /\ pc'[p] = "idle"
               /\ last' = [op |-> "create_assignment", proc |-> p, row |-> req[p],
                           ok |-> FALSE, waited |-> MaxBusyWaits]
               /\ req[p] \notin Stored']_vars
    /\ [][\A r \in Stored' \ Stored :
            \E p \in Procs : pc[p] = "commit" /\ r = req[p]]_vars
    /\ []((last.op = "create_assignment" /\ ~last.ok) => last.row \notin Stored)

\* C25 witness: a call has returned failure after waiting the whole bound
\* while the other process's transaction, still in flight, held the lock
C25_Witness ==
    /\ last.op = "create_assignment"
    /\ ~last.ok
    /\ last.row.valid
    /\ last.waited = MaxBusyWaits
    /\ writer \in Procs \ {last.proc}
    /\ pc[writer] = "commit"
    /\ last.row \notin Stored

(***************************************************************************)
(* The import log (csv_import.py 302-328).  An entry is the serial number  *)
(* of the _log_import call that made it, which stands for its timestamp;   *)
(* entries of earlier sessions have serial numbers of zero and below.  The *)
(* file is absent, or holds a JSON list (valid), or something json.load    *)
(* cannot read or that has no append (not valid).                          *)
(***************************************************************************)
MaxLogged == 102  \* _log_import calls one session is followed for

LOG_KEEP == 100

\* existing_log[-LOG_KEEP:]
KeepLast(log) ==
    IF Len(log) <= LOG_KEEP THEN log
    ELSE SubSeq(log, Len(log) - LOG_KEEP + 1, Len(log))

\* _log_import: the log in memory, the file it leaves, and whether the file
\* was written (an exception while reading is printed and ends the call)
_log_import_head(file, log) ==
    LET log_entry == Len(log) + 1
    IN  IF file.exists /\ ~file.valid
        THEN [log |-> Append(log, log_entry), file |-> file, wrote |-> FALSE,
              entry |-> log_entry]
        ELSE [log |-> Append(log, log_entry),
              file |-> [exists |-> TRUE, valid |-> TRUE,
                        entries |-> SubSeq(Append(file.entries, log_entry), 1,
                                           IF Len(file.entries) + 1 <= LOG_KEEP
                                           THEN Len(file.entries) + 1
                                           ELSE LOG_KEEP)],
              wrote |-> TRUE, entry |-> log_entry]
_log_import(file, log) ==
    LET log_entry == Len(log) + 1
    IN  IF file.exists /\ ~file.valid
        THEN [log |-> Append(log, log_entry), file |-> file, wrote |-> FALSE,
              entry |-> log_entry]
        ELSE [log |-> Append(log, log_entry),
              file |-> [exists |-> TRUE, valid |-> TRUE,
                        entries |-> KeepLast(Append(file.entries, log_entry))],
              wrote |-> TRUE, entry |-> log_entry]

\* What a new CSVImporter may find in the import directory: no file, an
\* empty list, an unreadable file, or the log of earlier sessions one entry
\* short of full
LogFilesFound ==
    {NoLogFile,
     [exists |-> TRUE, valid |-> TRUE, entries |-> <<>>],
     [exists |-> TRUE, valid |-> FALSE, entries |-> <<>>],
     [exists |-> TRUE, valid |-> TRUE,
      entries |-> [i \in 1..(LOG_KEEP - 1) |-> i - (LOG_KEEP - 1)]]}

InitLog ==
    /\ employees = <<>>
    /\ certifications = <<>>
    /\ cert_seq = 0
    /\ kind = "none"
    /\ batch = <<>>
    /\ runs = <<>>
    /\ last = [op |-> "__init__"]
    /\ CacheIdle
    /\ today = Days[1]
    /\ assignments = <<>>
    /\ assign_seq = 0
    /\ metadata = <<>>
    /\ SharedIdle
    /\ log_file \in LogFilesFound
    /\ import_log = <<>>

LogImport ==
    /\ Len(import_log) < MaxLogged
    /\ \E r \in {_log_import(log_file, import_log)} :
        /\ import_log' = r.log
        /\ log_file' = r.file
        /\ last' = [op |-> "_log_import", wrote |-> r.wrote, entry |-> r.entry]
    /\ UNCHANGED <<storeVars, cacheVars, today, assignVars, sharedVars, metadata>>

SpecLog == InitLog /\ [][LogImport]_vars

\* C26: bounded import log. After every _log_import call that writes the
\* log file, the file holds at most 100 entries, they are the most recent
\* entries of the file's log in the order they were logged, and the entry
\* just logged is the last one.
C26_BoundedLog ==
    /\ [][(last'.op = "_log_import" /\ last'.wrote)
            => /\ Len(log_file'.entries) <= 100
               /\ LET all == Append(log_file.entries, last'.entry)
                      n == Len(log_file'.entries)
                  IN  /\ n = IF Len(all) < 100 THEN Len(all) ELSE 100
                      /\ \A i \in 1..n :
                            log_file'.entries[i] = all[Len(all) - n + i]
               /\ log_file'.entries[Len(log_file'.entries)] = last'.entry]_vars
    /\ [](\A i, j \in DOMAIN log_file.entries :
            i < j => log_file.entries[i] < log_file.entries[j])

\* C26 witness: the call that logged the 101st entry of a session into a
\* file that was empty has written the file, and the first entry is gone
C26_Witness ==
    /\ last.op = "_log_import"
    /\ last.wrote
    /\ last.entry = 101
    /\ Len(log_file.entries) = 100
    /\ log_file.entries[1] = 2
    /\ log_file.entries[100] = 101

\* C27: no transaction outlives an operation. Whenever a process is not
\* inside a store operation its connection has no open transaction and does
\* not hold the write lock, so a valid write of another process never
\* returns failure because of a write that has already returned.
C27_NoOpenTransaction ==
    /\ \A p \in Procs : pc[p] = "idle" => (~in_tx[p] /\ writer # p)
    /\ (last.op = "create_assignment" /\ ~last.ok /\ last.row.valid)
          => \E q \in Procs \ {last.proc} : pc[q] # "idle"

\* C28: the two views of a shift date agree. In every store state and for
\* every date, total_assignments of get_coverage_summary equals the number
\* of rows get_assignments_by_date returns for status 'active'.
C28_ViewsAgree ==
    \A d \in DaySet :
        get_coverage_summary(assignments, d).total_assignments
            = Len(get_assignments_by_date(assignments, employees, d, "active"))

\* The counts run k of the import harness has reached after the first i
\* records of the batch
CountsAfter(k, i) ==
    LET tbl == runs[k].trace[1]
        r == IF kind = "employees"
             THEN bulk_import_employees(tbl, SubSeq(batch, 1, i))
             ELSE bulk_import_certifications(tbl, Len(tbl), SubSeq(batch, 1, i))
    IN  <<r.success, r.errors>>

\* C29: batch accounting. For every batch, the pair (success, failure)
\* returned by bulk_import_employees and bulk_import_certifications adds up
\* to the number of records of the batch, and each record adds one to
\* exactly one of the two counts.
C29_BatchAccounting ==
    \A k \in DOMAIN runs :
        /\ runs[k].success + runs[k].errors = Len(batch)
        /\ \E counts \in {[i \in 0..Len(batch) |-> CountsAfter(k, i)]} :
              /\ counts[Len(batch)] = <<runs[k].success, runs[k].errors>>
              /\ \A i \in DOMAIN batch :
                    \/ counts[i] = <<counts[i - 1][1] + 1, counts[i - 1][2]>>
                    \/ counts[i] = <<counts[i - 1][1], counts[i - 1][2] + 1>>

\* C29 witness: a batch of two records with one identity was imported into
\* a store without it: one record counted as success, one as failure
C29_Witness ==
    /\ kind = "employees"
    /\ Len(runs) = 1
    /\ Len(batch) = 2
    /\ Get(batch[1], "employee_id") = "E1"
    /\ Get(batch[2], "employee_id") = "E1"
    /\ runs[1].trace[1] = <<>>
    /\ runs[1].success = 1
    /\ runs[1].errors = 1

\* The call is an update or a cancel whose identity or id matches no row
AddressedToMissingRow ==
    \/ last'.op = "update_employee" /\ RowsWithId(employees, last'.id) = {}
    \/ /\ last'.op \in {"update_assignment", "delete_assignment"}
       /\ RowsWithAssignmentId(assignments, last'.id) = {}

\* The call names at least one field and only columns of its table (a
\* cancel names none of its own)
NamesColumnsOnly ==
    /\ last'.op = "update_employee"
         => /\ DOMAIN last'.args # {}
            /\ \A k \in DOMAIN last'.args : ColumnOf(k) \in EmployeeColumns
    /\ last'.op = "update_assignment"
         => /\ DOMAIN last'.args # {}
            /\ DOMAIN last'.args \subseteq AssignmentColumns

\* C30: writes addressed to a missing row are no-ops, as stated.
\* update_employee, update_assignment and delete_assignment called with an
\* identity or id that matches no row leave every table unchanged and
\* report True.
C30_MissingRowNoOp ==
    [][AddressedToMissingRow => (Tables' = Tables /\ last'.ret = TRUE)]_vars

\* C30 (amended): update_employee, update_assignment and delete_assignment
\* called with an identity or id that matches no row leave every table
\* unchanged; they report True when the call names at least one field and
\* only columns of the table, whatever the values, and False otherwise.
C30_MissingRowNoOpNamed ==
    [][AddressedToMissingRow
        => /\ Tables' = Tables
           /\ last'.ret = NamesColumnsOnly]_vars

\* C30 witness: with an assignment stored, an update that named an id no
\* row has, and a cluster outside the domain, has returned True
C30_Witness ==
    /\ last.op = "update_assignment"
    /\ Len(assignments) = 1
    /\ last.id = assign_seq + 1
    /\ last.args = [cluster |-> "Z"]
    /\ last.ret = TRUE

====
